---- MODULE Spec2Model ----
(***************************************************************************)
(* Model of the in-memory note / photo store of server.js.                 *)
(*                                                                         *)
(* Strings are sequences of one-character strings, so that trim(),         *)
(* toLowerCase(), length and decodeURIComponent() are computed and not     *)
(* assumed.  Timestamps are readings of an integer clock: ISO-8601 strings *)
(* of one clock compare like the instants they denote.                     *)
(***************************************************************************)
EXTENDS Integers, Sequences, FiniteSets, TLC

\* ------------------------------------------------------------------ bounds
MaxNotes == 2      \* notes held at once
LimitNotes == 1    \* notes held at once where tag lists or timestamps vary
MaxClock == 1      \* readings of the clock
MaxPhotoId == 3    \* photo ids handed out
EditPaths == 1      \* image files in the directory while metadata is edited
MaxScans == 1      \* scan requests in flight at once
MaxAlbumId == 2    \* album ids handed out
MaxOverlap == 2    \* scan requests in flight at once where scans overlap

\* ------------------------------------------------------- program constants
MaxTags == 10      \* server.js:352, server.js:403
MaxTagLen == 32    \* server.js:348, server.js:397
MaxLimit == 100    \* server.js:331

VARIABLES notes, noteTags, clock, last,
          photos, photoAlbums, photoTags, nextPhotoId, scans,
          albums, nextAlbumId, tags, nextTagId, editor

vars == <<notes, noteTags, clock, last,
          photos, photoAlbums, photoTags, nextPhotoId, scans,
          albums, nextAlbumId, tags, nextTagId, editor>>
noteVars == <<notes, noteTags>>
albumVars == <<albums, nextAlbumId>>
tagVars == <<tags, nextTagId>>
photoVars == <<photos, photoAlbums, photoTags, nextPhotoId, scans, albumVars, tagVars>>

\* ----------------------------------------------------------------- strings
\* String.prototype.toLowerCase on the characters of the model's alphabet
\* {"a", "A", "b", "x", " ", "%"}.
LowerChar(c) == IF c = "A" THEN "a" ELSE c

toLowerCase(s) == [i \in 1..Len(s) |-> LowerChar(s[i])]

RECURSIVE trimStart(_)
trimStart(s) == IF s # <<>> /\ Head(s) = " " THEN trimStart(Tail(s)) ELSE s

RECURSIVE trimEnd(_)
trimEnd(s) ==
  IF s # <<>> /\ s[Len(s)] = " " THEN trimEnd(SubSeq(s, 1, Len(s) - 1)) ELSE s

\* String.prototype.trim
trim(s) == trimEnd(trimStart(s))

\* normalizeTag: String(tag).trim().toLowerCase()
normalizeTag(tag) == toLowerCase(trim(tag))

\* decodeURIComponent replaces each escape "%hh..." by the character it
\* encodes and throws URIError on a "%" that starts no valid escape.  Over
\* the alphabet above every "%" is followed by nothing, by a non-hex
\* character, or by two of {a, A, b}, i.e. a byte 0xAA..0xBB, which is no
\* valid UTF-8 lead byte: a string with a "%" throws, and a string without
\* one has nothing to replace.
decodeURIComponent(s) ==
  IF \E i \in 1..Len(s) : s[i] = "%"
  THEN [threw |-> TRUE, value |-> <<>>]
  ELSE [threw |-> FALSE, value |-> s]

\* ------------------------------------------------------------- collections
Range(s) == {s[i] : i \in 1..Len(s)}

RECURSIVE SelectNot(_, _)
\* seq.filter(t => !drop.includes(t))
SelectNot(seq, drop) ==
  IF seq = <<>> THEN <<>>
  ELSE IF Head(seq) \in drop THEN SelectNot(Tail(seq), drop)
       ELSE <<Head(seq)>> \o SelectNot(Tail(seq), drop)

RECURSIVE UniqueFrom(_, _)
UniqueFrom(seq, seen) ==
  IF seq = <<>> THEN <<>>
  ELSE IF Head(seq) \in seen THEN UniqueFrom(Tail(seq), seen)
       ELSE <<Head(seq)>> \o UniqueFrom(Tail(seq), seen \cup {Head(seq)})

\* [...new Set(seq)]: first occurrences, in order
Unique(seq) == UniqueFrom(seq, {})

\* Array.prototype.indexOf / findIndex, 1-based; 0 when absent
IndexOf(seq, x) ==
  IF \E i \in 1..Len(seq) : seq[i] = x
  THEN CHOOSE i \in 1..Len(seq) : seq[i] = x /\ \A j \in 1..(i - 1) : seq[j] # x
  ELSE 0

\* Array.prototype.splice(idx, 1)
Splice(seq, i) == SubSeq(seq, 1, i - 1) \o SubSeq(seq, i + 1, Len(seq))

\* ------------------------------------------------------------ note helpers
\* notes.findIndex(n => n.id === id), 1-based; 0 when absent
findNoteIndex(ns, id) ==
  IF \E i \in 1..Len(ns) : ns[i].id = id
  THEN CHOOSE i \in 1..Len(ns) :
         ns[i].id = id /\ \A j \in 1..(i - 1) : ns[j].id # id
  ELSE 0

addToNoteTagIndex(idx, noteId, tag) ==
  IF tag \in DOMAIN idx
  THEN [idx EXCEPT ![tag] = @ \cup {noteId}]
  ELSE [t \in DOMAIN idx \cup {tag} |-> IF t = tag THEN {noteId} ELSE idx[t]]

\* Mutant: a bucket that becomes empty is kept.
removeFromNoteTagIndex_KeepEmpty(idx, noteId, tag) ==
  IF tag \in DOMAIN idx THEN [idx EXCEPT ![tag] = @ \ {noteId}] ELSE idx

removeFromNoteTagIndex(idx, noteId, tag) ==
  IF tag \in DOMAIN idx
  THEN IF idx[tag] \ {noteId} = {}
       THEN [t \in DOMAIN idx \ {tag} |-> idx[t]]
       ELSE [idx EXCEPT ![tag] = @ \ {noteId}]
  ELSE idx

RECURSIVE addAllToIndex(_, _, _)
\* for (const t of tags) addToNoteTagIndex(noteId, t)
addAllToIndex(idx, noteId, tagList) ==
  IF tagList = <<>> THEN idx
  ELSE addAllToIndex(addToNoteTagIndex(idx, noteId, Head(tagList)), noteId,
                     Tail(tagList))

RECURSIVE removeAllFromIndex(_, _, _)
\* for (const t of note.tags) removeFromNoteTagIndex(note.id, t)
removeAllFromIndex(idx, noteId, tagList) ==
  IF tagList = <<>> THEN idx
  ELSE removeAllFromIndex(removeFromNoteTagIndex(idx, noteId, Head(tagList)),
                          noteId, Tail(tagList))

\* Mutant: incoming tags are trimmed but not lowercased.
normalizeList_NoLower(rawTags) ==
  Unique(SelectNot([i \in 1..Len(rawTags) |-> trim(rawTags[i])], {<<>>}))

\* Mutant: duplicates are removed before the tags are normalized.
normalizeList_DedupRaw(rawTags) ==
  LET raw == Unique(rawTags) IN
  SelectNot([i \in 1..Len(raw) |-> normalizeTag(raw[i])], {<<>>})

\* rawTags.map(normalizeTag).filter(t => t.length > 0), deduplicated
normalizeList(rawTags) ==
  Unique(SelectNot([i \in 1..Len(rawTags) |-> normalizeTag(rawTags[i])], {<<>>}))

tooLong(tagList) == \E i \in 1..Len(tagList) : Len(tagList[i]) > MaxTagLen

\* A request body's "tags" value is an array of strings or something else.
IsArray(v) == v.kind = "array"

\* What a handler leaves behind: the store and the response.
Reply(ns, idx, status, error) ==
  [notes |-> ns, noteTags |-> idx, status |-> status, error |-> error]

\* ---------------------------------------------------------- note handlers
\* Each handler maps the store (ns = notes, idx = noteTags) and its request
\* to the store it leaves and the response it sends.

\* POST /api/notes
PostNote(ns, idx, body, id, now) ==
  LET rawTags == IF "tags" \in DOMAIN body THEN body.tags
                 ELSE [kind |-> "array", items |-> <<>>]
  IN
  IF ~("content" \in DOMAIN body) \/ body.content = <<>> \/ trim(body.content) = <<>>
  THEN Reply(ns, idx, 400, "content is required")
  ELSE IF ~IsArray(rawTags)
  THEN Reply(ns, idx, 400, "tags must be an array")
  ELSE
    LET normalizedTags == normalizeList(rawTags.items) IN
    IF tooLong(normalizedTags)
    THEN Reply(ns, idx, 400, "exceeds 32 characters")
    ELSE IF Len(normalizedTags) > MaxTags
    THEN Reply(ns, idx, 400, "Tag limit exceeded")
    ELSE
      LET note == [id |-> id, content |-> trim(body.content),
                   tags |-> normalizedTags, createdAt |-> now, updatedAt |-> now]
      IN Reply(Append(ns, note), addAllToIndex(idx, id, normalizedTags), 201, "")

\* Mutant: an edit of the content empties the tag list.
PatchNote_ClearTags(ns, idx, id, body, now) ==
  LET i == findNoteIndex(ns, id) IN
  IF i = 0
  THEN Reply(ns, idx, 404, "Note not found")
  ELSE IF "content" \in DOMAIN body
  THEN IF trim(body.content) = <<>>
       THEN Reply(ns, idx, 400, "content cannot be empty")
       ELSE Reply([ns EXCEPT ![i].content = trim(body.content), ![i].updatedAt = now,
                             ![i].tags = <<>>],
                  idx, 200, "")
  ELSE Reply([ns EXCEPT ![i].updatedAt = now], idx, 200, "")

\* Mutant: an edit stamps createdAt as well.
PatchNote_TouchCreated(ns, idx, id, body, now) ==
  LET i == findNoteIndex(ns, id) IN
  IF i = 0
  THEN Reply(ns, idx, 404, "Note not found")
  ELSE IF "content" \in DOMAIN body
  THEN IF trim(body.content) = <<>>
       THEN Reply(ns, idx, 400, "content cannot be empty")
       ELSE Reply([ns EXCEPT ![i].content = trim(body.content), ![i].updatedAt = now,
                             ![i].createdAt = now],
                  idx, 200, "")
  ELSE Reply([ns EXCEPT ![i].updatedAt = now, ![i].createdAt = now], idx, 200, "")

\* PATCH /api/notes/:id
PatchNote(ns, idx, id, body, now) ==
  LET i == findNoteIndex(ns, id) IN
  IF i = 0
  THEN Reply(ns, idx, 404, "Note not found")
  ELSE IF "content" \in DOMAIN body
  THEN IF trim(body.content) = <<>>
       THEN Reply(ns, idx, 400, "content cannot be empty")
       ELSE Reply([ns EXCEPT ![i].content = trim(body.content), ![i].updatedAt = now],
                  idx, 200, "")
  ELSE Reply([ns EXCEPT ![i].updatedAt = now], idx, 200, "")

\* DELETE /api/notes/:id
DeleteNote(ns, idx, id) ==
  LET i == findNoteIndex(ns, id) IN
  IF i = 0
  THEN Reply(ns, idx, 404, "Note not found")
  ELSE Reply(Splice(ns, i), removeAllFromIndex(idx, ns[i].id, ns[i].tags), 204, "")

\* Mutant: the tags already on the note are not filtered out.
newTagsOf_All(note, incoming) == incoming

\* incoming.filter(t => !note.tags.includes(t))
newTagsOf(note, incoming) == SelectNot(incoming, Range(note.tags))

\* Mutant: the limit is tested on the tags the note has before the add.
tagLimitExceeded_Before(note, newTags) == Len(note.tags) > MaxTags

\* note.tags.length + newTags.length > 10
tagLimitExceeded(note, newTags) == Len(note.tags) + Len(newTags) > MaxTags

\* The updatedAt a successful POST /api/notes/:id/tags leaves on the note.
addTagsUpdatedAt(note, newTags, now) == now

\* Mutant: the new tags are pushed before the limit is tested.
PostNoteTags_PushFirst(ns, idx, id, body, now) ==
  LET i == findNoteIndex(ns, id) IN
  IF i = 0
  THEN Reply(ns, idx, 404, "Note not found")
  ELSE IF ~("tags" \in DOMAIN body) \/ ~IsArray(body.tags)
  THEN Reply(ns, idx, 400, "tags must be an array")
  ELSE
    LET incoming == normalizeList(body.tags.items) IN
    IF tooLong(incoming)
    THEN Reply(ns, idx, 400, "exceeds 32 characters")
    ELSE
      LET newTags == newTagsOf(ns[i], incoming)
          pushed == [ns EXCEPT ![i].tags = @ \o newTags]
          indexed == addAllToIndex(idx, ns[i].id, newTags)
      IN IF tagLimitExceeded(ns[i], newTags)
         THEN Reply(pushed, indexed, 400, "Tag limit exceeded")
         ELSE Reply([pushed EXCEPT ![i].updatedAt = now], indexed, 200, "")

\* Mutant: the new tags are put in front of the tags the note has.
PostNoteTags_Prepend(ns, idx, id, body, now) ==
  LET i == findNoteIndex(ns, id) IN
  IF i = 0
  THEN Reply(ns, idx, 404, "Note not found")
  ELSE IF ~("tags" \in DOMAIN body) \/ ~IsArray(body.tags)
  THEN Reply(ns, idx, 400, "tags must be an array")
  ELSE
    LET incoming == normalizeList(body.tags.items) IN
    IF tooLong(incoming)
    THEN Reply(ns, idx, 400, "exceeds 32 characters")
    ELSE
      LET newTags == newTagsOf(ns[i], incoming) IN
      IF tagLimitExceeded(ns[i], newTags)
      THEN Reply(ns, idx, 400, "Tag limit exceeded")
      ELSE Reply([ns EXCEPT ![i].tags = newTags \o @,
                            ![i].updatedAt = addTagsUpdatedAt(ns[i], newTags, now)],
                 addAllToIndex(idx, ns[i].id, newTags), 200, "")

\* Mutant: the limit is tested before the lengths.
PostNoteTags_CountFirst(ns, idx, id, body, now) ==
  LET i == findNoteIndex(ns, id) IN
  IF i = 0
  THEN Reply(ns, idx, 404, "Note not found")
  ELSE IF ~("tags" \in DOMAIN body) \/ ~IsArray(body.tags)
  THEN Reply(ns, idx, 400, "tags must be an array")
  ELSE
    LET incoming == normalizeList(body.tags.items)
        newTags == newTagsOf(ns[i], incoming)
    IN
    IF tagLimitExceeded(ns[i], newTags)
    THEN Reply(ns, idx, 400, "Tag limit exceeded")
    ELSE IF tooLong(incoming)
    THEN Reply(ns, idx, 400, "exceeds 32 characters")
    ELSE Reply([ns EXCEPT ![i].tags = @ \o newTags,
                          ![i].updatedAt = addTagsUpdatedAt(ns[i], newTags, now)],
               addAllToIndex(idx, ns[i].id, newTags), 200, "")

\* POST /api/notes/:id/tags
PostNoteTags(ns, idx, id, body, now) ==
  LET i == findNoteIndex(ns, id) IN
  IF i = 0
  THEN Reply(ns, idx, 404, "Note not found")
  ELSE IF ~("tags" \in DOMAIN body) \/ ~IsArray(body.tags)
  THEN Reply(ns, idx, 400, "tags must be an array")
  ELSE
    LET incoming == normalizeList(body.tags.items) IN
    IF tooLong(incoming)
    THEN Reply(ns, idx, 400, "exceeds 32 characters")
    ELSE
      LET newTags == newTagsOf(ns[i], incoming) IN
      IF tagLimitExceeded(ns[i], newTags)
      THEN Reply(ns, idx, 400, "Tag limit exceeded")
      ELSE Reply([ns EXCEPT ![i].tags = @ \o newTags,
                            ![i].updatedAt = addTagsUpdatedAt(ns[i], newTags, now)],
                 addAllToIndex(idx, ns[i].id, newTags), 200, "")

\* DELETE /api/notes/:id/tags/:tag.  param is req.params.tag, the path
\* segment as the router hands it over, which is the tag the client named:
\* the router has decoded the segment once already.  An exception thrown by
\* the handler is answered 500.
DeleteNoteTag(ns, idx, id, param, now) ==
  LET i == findNoteIndex(ns, id)
      decoded == decodeURIComponent(param)
  IN
  IF i = 0
  THEN Reply(ns, idx, 404, "Note not found")
  ELSE IF decoded.threw
  THEN Reply(ns, idx, 500, "URI malformed")
  ELSE
    LET tagName == normalizeTag(decoded.value)
        k == IndexOf(ns[i].tags, tagName)
    IN IF k = 0
       THEN Reply(ns, idx, 404, "Tag not found on this note")
       ELSE Reply([ns EXCEPT ![i].tags = Splice(@, k), ![i].updatedAt = now],
                  removeFromNoteTagIndex(idx, ns[i].id, tagName), 200, "")

\* ------------------------------------------------------------- GET /notes
\* Numbers as JavaScript has them here: an integer or NaN.
NaN == [nan |-> TRUE]
Int_(n) == [nan |-> FALSE, n |-> n]

Digits == {"0", "1", "2", "3", "4", "5", "6", "7", "8", "9"}
DigitValue(c) ==
  CASE c = "0" -> 0 [] c = "1" -> 1 [] c = "2" -> 2 [] c = "3" -> 3 [] c = "4" -> 4
    [] c = "5" -> 5 [] c = "6" -> 6 [] c = "7" -> 7 [] c = "8" -> 8 [] c = "9" -> 9

RECURSIVE digitPrefix(_, _, _)
\* The value of the longest prefix of decimal digits of s, after acc; NaN
\* when there is no digit (any says whether one was read).
digitPrefix(s, acc, any) ==
  IF s # <<>> /\ Head(s) \in Digits
  THEN digitPrefix(Tail(s), 10 * acc + DigitValue(Head(s)), TRUE)
  ELSE IF any THEN Int_(acc) ELSE NaN

\* parseInt(string): leading whitespace, an optional sign, decimal digits
\* up to the first character that is none.
parseInt(str) ==
  LET s == trimStart(str)
      negative == s # <<>> /\ Head(s) = "-"
      signed == s # <<>> /\ Head(s) \in {"-", "+"}
      v == digitPrefix(IF signed THEN Tail(s) ELSE s, 0, FALSE)
  IN IF v = NaN THEN NaN ELSE IF negative THEN Int_(0 - v.n) ELSE v

\* Math.min(a, k) for a number a and an integer k
MathMin(a, k) == IF a = NaN THEN NaN ELSE IF a.n < k THEN a ELSE Int_(k)

\* (a - 1) * b and a * b on numbers
TimesPred(a, b) == IF a = NaN \/ b = NaN THEN NaN ELSE Int_((a.n - 1) * b.n)
Times(a, b) == IF a = NaN \/ b = NaN THEN NaN ELSE Int_(a.n * b.n)

\* The index Array.prototype.slice makes of an argument: NaN is 0, a
\* negative value counts from the end, and the result is clamped to 0..len.
sliceIndex(a, len) ==
  IF a = NaN THEN 0
  ELSE IF a.n < 0 THEN (IF len + a.n < 0 THEN 0 ELSE len + a.n)
  ELSE IF a.n > len THEN len ELSE a.n

\* Mutant: the element at the end index is taken too.
slice_Inclusive(seq, start, end) ==
  LET from == sliceIndex(start, Len(seq))
      to == sliceIndex(end, Len(seq))
  IN SubSeq(seq, from + 1, IF to < Len(seq) THEN to + 1 ELSE to)

\* Array.prototype.slice(start, end)
slice(seq, start, end) ==
  LET from == sliceIndex(start, Len(seq))
      to == sliceIndex(end, Len(seq))
  IN SubSeq(seq, from + 1, to)

\* String.prototype.includes
includes(hay, needle) ==
  \E k \in 0..(Len(hay) - Len(needle)) : SubSeq(hay, k + 1, k + Len(needle)) = needle

RECURSIVE SelectNotes(_, _, _)
\* result.filter(n => keep(n)) for the two filters of the pipeline: the
\* note's id is in ids, the note's lowercased content includes s
SelectNotes(ns, kind, arg) ==
  IF ns = <<>> THEN <<>>
  ELSE
    LET n == Head(ns)
        keep == IF kind = "ids" THEN n.id \in arg
                ELSE includes(toLowerCase(n.content), arg)
    IN IF keep THEN <<n>> \o SelectNotes(Tail(ns), kind, arg)
       ELSE SelectNotes(Tail(ns), kind, arg)

\* The comparator of the sort: a[field].localeCompare(b[field]), negated
\* unless order is 'asc'.  Timestamps of one clock compare as the instants.
compareNotes(a, b, sort, order) ==
  LET field == IF sort = "updatedAt" THEN "updatedAt" ELSE "createdAt"
      cmp == IF a[field] < b[field] THEN -1 ELSE IF a[field] > b[field] THEN 1 ELSE 0
  IN IF order = "asc" THEN cmp ELSE 0 - cmp

\* Array.prototype.sort with the comparator above.  The sort is stable:
\* a note comes before another when it compares less, or compares equal and
\* stood before it; place[i] is where the i-th note lands.
sortNotes(ns, sort, order) ==
  LET n == Len(ns)
      before(j, i) ==
        LET c == compareNotes(ns[j], ns[i], sort, order) IN c < 0 \/ (c = 0 /\ j < i)
      place == SubSeq([i \in 1..n |-> Cardinality({j \in 1..n : before(j, i)}) + 1], 1, n)
  IN [k \in 1..n |-> ns[CHOOSE i \in 1..n : place[i] = k]]

\* A query parameter, or its default when the query does not carry it.
queryParam(query, name, default) == IF name \in DOMAIN query THEN query[name] ELSE default

\* The notes the filters of GET /api/notes select, in store order.
filterNotes(ns, idx, query) ==
  LET tag == queryParam(query, "tag", <<>>)
      search == queryParam(query, "search", <<>>)
      byTag == IF tag = <<>> THEN ns
               ELSE IF toLowerCase(tag) \in DOMAIN idx
                    THEN SelectNotes(ns, "ids", idx[toLowerCase(tag)])
                    ELSE <<>>
  IN IF search = <<>> THEN byTag
     ELSE SelectNotes(byTag, "search", toLowerCase(search))

\* GET /api/notes
GetNotes(ns, idx, query) ==
  LET result == sortNotes(filterNotes(ns, idx, query),
                          queryParam(query, "sort", "createdAt"),
                          queryParam(query, "order", "desc"))
      p == parseInt(queryParam(query, "page", <<"1">>))
      l == MathMin(parseInt(queryParam(query, "limit", <<"2", "0">>)), MaxLimit)
  IN [notes |-> slice(result, TimesPred(p, l), Times(p, l)),
      total |-> Len(result), page |-> p, limit |-> l, status |-> 200, error |-> ""]

\* --------------------------------------------------------- photo handlers
\* JSON null
Null == [t |-> "null"]

\* A JSON number n / d
Num(n, d) == [t |-> "num", n |-> n, d |-> d]

\* Text values of photo fields
Text(s) == [t |-> "text", s |-> s]

\* rating < k and rating > k for a numeric rating
NumLess(r, k) == r.n < k * r.d
NumGreater(r, k) == r.n > k * r.d

\* rating !== null && (rating < 1 || rating > 5)
ratingRejected(rating) ==
  rating # Null /\ (NumLess(rating, 1) \/ NumGreater(rating, 5))

\* photos.find(p => p.id === id) as a 1-based index; 0 when absent
findPhotoIndex(ps, id) ==
  IF \E i \in 1..Len(ps) : ps[i].id = id
  THEN CHOOSE i \in 1..Len(ps) :
         ps[i].id = id /\ \A j \in 1..(i - 1) : ps[j].id # id
  ELSE 0

PhotoReply(ps, status, error) == [photos |-> ps, status |-> status, error |-> error]

\* if (field !== undefined) photo.field = field
assignIfPresent(photo, body, field) ==
  IF field \in DOMAIN body THEN [photo EXCEPT ![field] = body[field]] ELSE photo

\* PATCH /api/photos/:id
PatchPhoto(ps, id, body, now) ==
  LET i == findPhotoIndex(ps, id) IN
  IF i = 0
  THEN PhotoReply(ps, 404, "Photo not found")
  ELSE
    LET p1 == assignIfPresent(ps[i], body, "title")
        p2 == assignIfPresent(p1, body, "description")
    IN IF "rating" \in DOMAIN body /\ ratingRejected(body.rating)
       THEN PhotoReply([ps EXCEPT ![i] = p2], 400, "Rating must be between 1 and 5")
       ELSE
         LET p3 == assignIfPresent(p2, body, "rating")
             p4 == assignIfPresent(p3, body, "date_taken")
         IN PhotoReply([ps EXCEPT ![i] = [p4 EXCEPT !.updated_at = now]], 200, "")

RECURSIVE addPass_IgnoreExisting(_, _, _, _, _)
\* Mutant: every scanned file is added, also one that is stored already.
addPass_IgnoreExisting(ps, nextId, scanned, existingPaths, now) ==
  IF scanned = <<>> THEN [photos |-> ps, nextPhotoId |-> nextId]
  ELSE addPass_IgnoreExisting(
         Append(ps, [id |-> nextId, file_path |-> Head(scanned), title |-> Null,
                     description |-> Null, rating |-> Null, date_taken |-> Null,
                     updated_at |-> now]),
         nextId + 1, Tail(scanned), existingPaths, now)

RECURSIVE addPass_CountIds(_, _, _, _, _)
\* Mutant: a new photo is numbered by its place in the store.
addPass_CountIds(ps, nextId, scanned, existingPaths, now) ==
  IF scanned = <<>> THEN [photos |-> ps, nextPhotoId |-> nextId]
  ELSE IF Head(scanned) \in existingPaths
  THEN addPass_CountIds(ps, nextId, Tail(scanned), existingPaths, now)
  ELSE addPass_CountIds(Append(ps, [id |-> Len(ps) + 1, file_path |-> Head(scanned),
                                     title |-> Null, description |-> Null,
                                     rating |-> Null, date_taken |-> Null,
                                     updated_at |-> now]),
                        nextId + 1, Tail(scanned), existingPaths, now)

RECURSIVE addPass(_, _, _, _, _)
\* for (const file of scanned) if (!existingPaths.has(file.file_path)) photos.push(...)
addPass(ps, nextId, scanned, existingPaths, now) ==
  IF scanned = <<>> THEN [photos |-> ps, nextPhotoId |-> nextId]
  ELSE IF Head(scanned) \in existingPaths
  THEN addPass(ps, nextId, Tail(scanned), existingPaths, now)
  ELSE addPass(Append(ps, [id |-> nextId, file_path |-> Head(scanned), title |-> Null,
                           description |-> Null, rating |-> Null, date_taken |-> Null,
                           updated_at |-> now]),
               nextId + 1, Tail(scanned), existingPaths, now)

RECURSIVE SelectPhotos(_, _)
\* photos.filter(p => paths.has(p.file_path))
SelectPhotos(ps, paths) ==
  IF ps = <<>> THEN <<>>
  ELSE IF Head(ps).file_path \in paths
       THEN <<Head(ps)>> \o SelectPhotos(Tail(ps), paths)
       ELSE SelectPhotos(Tail(ps), paths)

RECURSIVE SelectJoin(_, _)
\* join.filter(row => keep.has(row.photo_id))
SelectJoin(join, keep) ==
  IF join = <<>> THEN <<>>
  ELSE IF Head(join).photo_id \in keep
       THEN <<Head(join)>> \o SelectJoin(Tail(join), keep)
       ELSE SelectJoin(Tail(join), keep)

\* Mutant: the add pass does not look at the paths in the store.
ScanApply_NoPathCheck(ps, pas, pts, nextId, scanned, now) ==
  LET scannedPaths == Range(scanned)
      afterAdd == addPass(ps, nextId, scanned, {}, now)
      kept == SelectPhotos(afterAdd.photos, scannedPaths)
      keptIds == {kept[i].id : i \in 1..Len(kept)}
  IN [photos |-> kept,
      photoAlbums |-> SelectJoin(pas, keptIds),
      photoTags |-> SelectJoin(pts, keptIds),
      nextPhotoId |-> afterAdd.nextPhotoId,
      added |-> Len(afterAdd.photos) - Len(ps),
      removed |-> Len(afterAdd.photos) - Len(kept),
      total |-> Len(kept)]

\* Mutant: the remove pass leaves the join rows of the removed photos.
ScanApply_NoCascade(ps, pas, pts, nextId, scanned, now) ==
  LET existingPaths == {ps[i].file_path : i \in 1..Len(ps)}
      afterAdd == addPass(ps, nextId, scanned, existingPaths, now)
      kept == SelectPhotos(afterAdd.photos, Range(scanned))
  IN [photos |-> kept, photoAlbums |-> pas, photoTags |-> pts,
      nextPhotoId |-> afterAdd.nextPhotoId,
      added |-> Len(afterAdd.photos) - Len(ps),
      removed |-> Len(afterAdd.photos) - Len(kept),
      total |-> Len(kept)]

\* POST /api/scan once the directory listing `scanned` has arrived: the add
\* pass, then the remove pass with its cascades.
ScanApply(ps, pas, pts, nextId, scanned, now) ==
  LET existingPaths == {ps[i].file_path : i \in 1..Len(ps)}
      scannedPaths == Range(scanned)
      afterAdd == addPass(ps, nextId, scanned, existingPaths, now)
      kept == SelectPhotos(afterAdd.photos, scannedPaths)
      keptIds == {kept[i].id : i \in 1..Len(kept)}
  IN [photos |-> kept,
      photoAlbums |-> SelectJoin(pas, keptIds),
      photoTags |-> SelectJoin(pts, keptIds),
      nextPhotoId |-> afterAdd.nextPhotoId,
      added |-> Len(afterAdd.photos) - Len(ps),
      removed |-> Len(afterAdd.photos) - Len(kept),
      total |-> Len(kept)]

\* Mutant: the files listed before the failure are added.
ScanFailed_PartialAdd(ps, pas, pts, nextId, partial, now) ==
  LET r == addPass(ps, nextId, partial, {ps[i].file_path : i \in 1..Len(ps)}, now)
  IN [photos |-> r.photos, photoAlbums |-> pas, photoTags |-> pts,
      nextPhotoId |-> r.nextPhotoId]

\* POST /api/scan when scanDirectory throws after it has listed the files
\* `partial`: the listing is local to scanDirectory and is lost, the catch
\* block answers, and no statement after the await has run.
ScanFailed(ps, pas, pts, nextId, partial, now) ==
  [photos |-> ps, photoAlbums |-> pas, photoTags |-> pts, nextPhotoId |-> nextId]

\* ----------------------------------------------------- photo tag handlers
\* tags.find(t => t.name.toLowerCase() === name.toLowerCase()) as a 1-based
\* index; 0 when absent
\* Mutant: names are matched as they are written.
findTagIndex_CaseSensitive(tgs, name) ==
  IF \E i \in 1..Len(tgs) : tgs[i].name = name
  THEN CHOOSE i \in 1..Len(tgs) :
         tgs[i].name = name /\ \A j \in 1..(i - 1) : tgs[j].name # name
  ELSE 0

findTagIndex(tgs, name) ==
  IF \E i \in 1..Len(tgs) : toLowerCase(tgs[i].name) = toLowerCase(name)
  THEN CHOOSE i \in 1..Len(tgs) :
         /\ toLowerCase(tgs[i].name) = toLowerCase(name)
         /\ \A j \in 1..(i - 1) : toLowerCase(tgs[j].name) # toLowerCase(name)
  ELSE 0

\* What a photo tag handler leaves behind: the tag rows, the id counter, the
\* photo-tag rows and the response.
TagReply(tgs, nextId, pts, status, error) ==
  [tags |-> tgs, nextTagId |-> nextId, photoTags |-> pts,
   status |-> status, error |-> error]

RECURSIVE pushPhotoTags(_, _, _, _, _)
\* for (const name of tagNames): find or create the tag row, then add the
\* (photo_id, tag_id) row unless it is there
pushPhotoTags(tgs, nextId, pts, photoId, tagNames) ==
  IF tagNames = <<>> THEN [tags |-> tgs, nextTagId |-> nextId, photoTags |-> pts]
  ELSE
    LET name == Head(tagNames)
        k == findTagIndex(tgs, name)
        tgs1 == IF k = 0 THEN Append(tgs, [id |-> nextId, name |-> name]) ELSE tgs
        next1 == IF k = 0 THEN nextId + 1 ELSE nextId
        tagId == IF k = 0 THEN nextId ELSE tgs[k].id
        row == [photo_id |-> photoId, tag_id |-> tagId]
        pts1 == IF row \in Range(pts) THEN pts ELSE Append(pts, row)
    IN pushPhotoTags(tgs1, next1, pts1, photoId, Tail(tagNames))

\* POST /api/photos/:id/tags
PostPhotoTags(ps, tgs, nextId, pts, id, body) ==
  LET i == findPhotoIndex(ps, id) IN
  IF i = 0
  THEN TagReply(tgs, nextId, pts, 404, "Photo not found")
  ELSE IF ~("tags" \in DOMAIN body) \/ ~IsArray(body.tags)
  THEN TagReply(tgs, nextId, pts, 400, "tags must be an array")
  ELSE
    LET r == pushPhotoTags(tgs, nextId, pts, ps[i].id, body.tags.items)
    IN TagReply(r.tags, r.nextTagId, r.photoTags, 200, "")

RECURSIVE SelectNotRow(_, _)
\* photoTags.filter(pt => !(pt.photo_id === photo.id && pt.tag_id === tag.id))
SelectNotRow(pts, row) ==
  IF pts = <<>> THEN <<>>
  ELSE IF Head(pts) = row THEN SelectNotRow(Tail(pts), row)
       ELSE <<Head(pts)>> \o SelectNotRow(Tail(pts), row)

\* Mutant: the tag row goes with its last join row.
DeletePhotoTag_DropRow(ps, tgs, nextId, pts, id, tagName) ==
  LET i == findPhotoIndex(ps, id)
      decoded == decodeURIComponent(tagName)
  IN
  IF i = 0
  THEN TagReply(tgs, nextId, pts, 404, "Photo not found")
  ELSE IF decoded.threw
  THEN TagReply(tgs, nextId, pts, 500, "URI malformed")
  ELSE
    LET k == findTagIndex(tgs, decoded.value) IN
    IF k = 0
    THEN TagReply(tgs, nextId, pts, 204, "")
    ELSE
      LET rest == SelectNotRow(pts, [photo_id |-> ps[i].id, tag_id |-> tgs[k].id])
      IN TagReply(IF \E row \in Range(rest) : row.tag_id = tgs[k].id
                  THEN tgs ELSE Splice(tgs, k),
                  nextId, rest, 204, "")

\* DELETE /api/photos/:id/tags/:tagName; tagName is req.params.tagName
DeletePhotoTag(ps, tgs, nextId, pts, id, tagName) ==
  LET i == findPhotoIndex(ps, id)
      decoded == decodeURIComponent(tagName)
  IN
  IF i = 0
  THEN TagReply(tgs, nextId, pts, 404, "Photo not found")
  ELSE IF decoded.threw
  THEN TagReply(tgs, nextId, pts, 500, "URI malformed")
  ELSE
    LET k == findTagIndex(tgs, decoded.value) IN
    IF k = 0
    THEN TagReply(tgs, nextId, pts, 204, "")
    ELSE TagReply(tgs, nextId,
                  SelectNotRow(pts, [photo_id |-> ps[i].id, tag_id |-> tgs[k].id]),
                  204, "")

\* photoTags.filter(pt => pt.tag_id === t.id).length
joinCount(pts, tagId) == Cardinality({j \in 1..Len(pts) : pts[j].tag_id = tagId})

\* The photo tag map of GET /api/tags: the tag rows keyed by lowercased
\* name, a later row replacing an earlier one of the same key.
photoTagMap(tgs, pts) ==
  [k \in {toLowerCase(tgs[i].name) : i \in 1..Len(tgs)} |->
     LET i == CHOOSE i \in 1..Len(tgs) :
                /\ toLowerCase(tgs[i].name) = k
                /\ \A j \in (i + 1)..Len(tgs) : toLowerCase(tgs[j].name) # k
     IN [name |-> tgs[i].name, photoCount |-> joinCount(pts, tgs[i].id)]]

\* GET /api/tags: one entry for each name of the photo tag map and of the
\* note index, here keyed by that name.
GetTags(tgs, pts, idx) ==
  LET byName == photoTagMap(tgs, pts) IN
  [name \in DOMAIN byName \cup DOMAIN idx |->
     [name |-> IF name \in DOMAIN byName THEN byName[name].name ELSE name,
      noteCount |-> IF name \in DOMAIN idx THEN Cardinality(idx[name]) ELSE 0,
      photoCount |-> IF name \in DOMAIN byName THEN byName[name].photoCount ELSE 0]]

\* --------------------------------------------------------- album handlers
\* albums.findIndex(a => a.id === id), 1-based; 0 when absent
findAlbumIndex(als, id) ==
  IF \E i \in 1..Len(als) : als[i].id = id
  THEN CHOOSE i \in 1..Len(als) :
         als[i].id = id /\ \A j \in 1..(i - 1) : als[j].id # id
  ELSE 0

\* What an album handler leaves behind: the albums, the id counter, the
\* album-photo rows and the response.
AlbumReply(als, nextId, pas, status, error) ==
  [albums |-> als, nextAlbumId |-> nextId, photoAlbums |-> pas,
   status |-> status, error |-> error]

\* description || null
orNull(body, field) ==
  IF field \in DOMAIN body /\ body[field] # Text("") THEN body[field] ELSE Null

\* POST /api/albums
PostAlbum(als, nextId, pas, body, now) ==
  IF ~("name" \in DOMAIN body) \/ body.name = <<>> \/ trim(body.name) = <<>>
  THEN AlbumReply(als, nextId, pas, 400, "Album name is required")
  ELSE IF \E i \in 1..Len(als) : als[i].name = body.name
  THEN AlbumReply(als, nextId, pas, 409, "Album name already exists")
  ELSE AlbumReply(Append(als, [id |-> nextId, name |-> trim(body.name),
                               description |-> orNull(body, "description"),
                               updated_at |-> now]),
                  nextId + 1, pas, 201, "")

\* PATCH /api/albums/:id
PatchAlbum(als, nextId, pas, id, body, now) ==
  LET i == findAlbumIndex(als, id) IN
  IF i = 0
  THEN AlbumReply(als, nextId, pas, 404, "Album not found")
  ELSE IF "name" \in DOMAIN body /\ trim(body.name) = <<>>
  THEN AlbumReply(als, nextId, pas, 400, "Album name is required")
  ELSE IF "name" \in DOMAIN body
          /\ \E j \in 1..Len(als) : als[j].name = body.name /\ als[j].id # als[i].id
  THEN AlbumReply(als, nextId, pas, 409, "Album name already exists")
  ELSE
    LET a1 == IF "name" \in DOMAIN body
              THEN [als[i] EXCEPT !.name = trim(body.name)] ELSE als[i]
        a2 == assignIfPresent(a1, body, "description")
    IN AlbumReply([als EXCEPT ![i] = [a2 EXCEPT !.updated_at = now]],
                  nextId, pas, 200, "")

RECURSIVE SelectNotAlbum(_, _)
\* photoAlbums.filter(pa => pa.album_id !== id)
SelectNotAlbum(pas, id) ==
  IF pas = <<>> THEN <<>>
  ELSE IF Head(pas).album_id = id THEN SelectNotAlbum(Tail(pas), id)
       ELSE <<Head(pas)>> \o SelectNotAlbum(Tail(pas), id)

\* Mutant: the delete empties the membership table.
DeleteAlbum_ClearAll(als, nextId, pas, id) ==
  LET i == findAlbumIndex(als, id) IN
  IF i = 0
  THEN AlbumReply(als, nextId, pas, 404, "Album not found")
  ELSE AlbumReply(Splice(als, i), nextId, <<>>, 204, "")

\* DELETE /api/albums/:id
DeleteAlbum(als, nextId, pas, id) ==
  LET i == findAlbumIndex(als, id) IN
  IF i = 0
  THEN AlbumReply(als, nextId, pas, 404, "Album not found")
  ELSE AlbumReply(Splice(als, i), nextId, SelectNotAlbum(pas, id), 204, "")

RECURSIVE pushAlbumPhotos_Unchecked(_, _, _, _)
\* Mutant: the photo is not looked up before the pair is pushed.
pushAlbumPhotos_Unchecked(pas, ps, albumId, photoIds) ==
  IF photoIds = <<>> THEN pas
  ELSE
    LET pid == Head(photoIds)
        row == [photo_id |-> pid, album_id |-> albumId]
    IN IF row \notin Range(pas)
       THEN pushAlbumPhotos_Unchecked(Append(pas, row), ps, albumId, Tail(photoIds))
       ELSE pushAlbumPhotos_Unchecked(pas, ps, albumId, Tail(photoIds))

RECURSIVE pushAlbumPhotos_NoDedup(_, _, _, _)
\* Mutant: a pair is pushed whether or not it is there already.
pushAlbumPhotos_NoDedup(pas, ps, albumId, photoIds) ==
  IF photoIds = <<>> THEN pas
  ELSE
    LET pid == Head(photoIds)
        row == [photo_id |-> pid, album_id |-> albumId]
    IN IF findPhotoIndex(ps, pid) # 0
       THEN pushAlbumPhotos_NoDedup(Append(pas, row), ps, albumId, Tail(photoIds))
       ELSE pushAlbumPhotos_NoDedup(pas, ps, albumId, Tail(photoIds))

RECURSIVE pushAlbumPhotos(_, _, _, _)
\* for (const pid of photo_ids)
\*   if (findPhoto(pid) && !photoAlbums.find(...)) photoAlbums.push(...)
pushAlbumPhotos(pas, ps, albumId, photoIds) ==
  IF photoIds = <<>> THEN pas
  ELSE
    LET pid == Head(photoIds)
        row == [photo_id |-> pid, album_id |-> albumId]
    IN IF findPhotoIndex(ps, pid) # 0 /\ row \notin Range(pas)
       THEN pushAlbumPhotos(Append(pas, row), ps, albumId, Tail(photoIds))
       ELSE pushAlbumPhotos(pas, ps, albumId, Tail(photoIds))

\* POST /api/albums/:id/photos
PostAlbumPhotos(als, nextId, pas, ps, id, body) ==
  LET i == findAlbumIndex(als, id) IN
  IF i = 0
  THEN AlbumReply(als, nextId, pas, 404, "Album not found")
  ELSE IF ~("photo_ids" \in DOMAIN body) \/ ~IsArray(body.photo_ids)
  THEN AlbumReply(als, nextId, pas, 400, "photo_ids must be an array")
  ELSE AlbumReply(als, nextId, pushAlbumPhotos(pas, ps, als[i].id, body.photo_ids.items),
                  200, "")

RECURSIVE SelectNotPair(_, _, _)
\* photoAlbums.filter(pa => !(pa.album_id === albumId && pa.photo_id === photoId))
SelectNotPair(pas, albumId, photoId) ==
  IF pas = <<>> THEN <<>>
  ELSE IF Head(pas).album_id = albumId /\ Head(pas).photo_id = photoId
       THEN SelectNotPair(Tail(pas), albumId, photoId)
       ELSE <<Head(pas)>> \o SelectNotPair(Tail(pas), albumId, photoId)

\* DELETE /api/albums/:id/photos/:photoId
DeleteAlbumPhoto(als, nextId, pas, albumId, photoId) ==
  AlbumReply(als, nextId, SelectNotPair(pas, albumId, photoId), 204, "")

\* ----------------------------------------------------------------- inputs
Xs(n) == [i \in 1..n |-> "x"]

\* n distinct valid tags: x, xx, xxx, ..., the last one of the longest
\* length a tag may have.
Bulk(n) == [i \in 1..n |-> IF i = n THEN Xs(MaxTagLen) ELSE Xs(i)]

TagA == <<"a">>
TagB == <<"b">>
PaddedUpperA == <<" ", "A", " ">>
Blank == <<" ">>
Percent == <<"%">>
TooLongTag == Xs(MaxTagLen + 1)

\* Tag arrays over two tags, written in several ways, and one array with a
\* tag that is too long.
PairArrays ==
  {<<>>, <<TagA>>, <<PaddedUpperA>>, <<TagB>>, <<Blank>>, <<TagA, PaddedUpperA>>,
   <<TagA, TagB>>, <<TagB, TagA>>, <<TagB, Blank, PaddedUpperA>>, <<TooLongTag>>}

\* The same with a third tag, one that holds a "%".
SmallArrays == PairArrays \cup {<<Percent>>, <<TagA, Percent>>, <<Percent, TagB>>}

\* A few of the arrays over two tags.
FewArrays == {<<>>, <<TagA>>, <<TagA, TagB>>, <<PaddedUpperA, Blank>>, <<TooLongTag>>}

\* Tag arrays around the tag limit: a block one short of the limit, a block
\* one over it, also together with a tag that is too long.
BulkArrays ==
  {Bulk(MaxTags - 1), Bulk(MaxTags + 1), Bulk(MaxTags + 1) \o <<TooLongTag>>}

Arr(items) == [kind |-> "array", items |-> items]
NotArray == [kind |-> "string"]

\* Contents a note is created with, and the ones it may be edited to.
Contents == {<<>>, <<" ">>, <<"a">>}
EditedContents == Contents \cup {<<" ", "b", " ">>}

CreateBodies(arrays) ==
  {[content |-> <<"a">>, tags |-> Arr(ta)] : ta \in arrays}
    \cup {[content |-> c] : c \in Contents}
    \cup {[tags |-> Arr(<<<<"a">>>>)], [content |-> <<"a">>, tags |-> NotArray]}

PatchBodies(contents) == {[content |-> c] : c \in contents} \cup {[other |-> TRUE]}

AddBodies(arrays) ==
  {[tags |-> Arr(ta)] : ta \in arrays} \cup {[tags |-> NotArray], [other |-> TRUE]}

TagParams == {TagA, PaddedUpperA, <<"A">>, TagB, Blank, Percent}

\* The outcomes of generateNoteId: 'n_' + the first 6 hex digits of a random
\* UUID, here the value of those digits.  As many outcomes are explored as
\* the store may hold notes, so that ids may collide and may differ.
NoteIds(cap) == 1..cap

\* Ids a client may name: the generated ones and one that is never generated.
ReqIds(cap) == NoteIds(cap) \cup {0}

\* ---------------------------------------------------------------- actions
\* The response a handler result r gives to a request of kind op.
Response(op, r) == [op |-> op, status |-> r.status, error |-> r.error]

\* POST /api/notes with this body, generateNoteId giving id.
CreateNoteWith(body, id, cap) ==
  LET r == PostNote(notes, noteTags, body, id, clock) IN
  /\ Len(r.notes) <= cap
  /\ notes' = r.notes
  /\ noteTags' = r.noteTags
  /\ last' = Response("createNote", r)
  /\ UNCHANGED <<editor, clock, photoVars>>

\* POST /api/notes with one of the bodies, generateNoteId giving one of ids.
CreateNoteOf(bodies, ids, cap) ==
  \E body \in bodies, id \in ids : CreateNoteWith(body, id, cap)

\* POST /api/notes with a body written over one of the tag arrays.
CreateNote(arrays, cap) ==
  \E body \in CreateBodies(arrays), id \in NoteIds(cap) : CreateNoteWith(body, id, cap)

UpdateNote(contents, cap) ==
  \E id \in ReqIds(cap), body \in PatchBodies(contents) :
    LET r == PatchNote(notes, noteTags, id, body, clock) IN
    /\ notes' = r.notes
    /\ noteTags' = r.noteTags
    /\ last' = Response("updateNote", r)
    /\ UNCHANGED <<editor, clock, photoVars>>

RemoveNote(cap) ==
  \E id \in ReqIds(cap) :
    LET r == DeleteNote(notes, noteTags, id) IN
    /\ notes' = r.notes
    /\ noteTags' = r.noteTags
    /\ last' = [op |-> "deleteNote", status |-> r.status, error |-> r.error, id |-> id]
    /\ UNCHANGED <<editor, clock, photoVars>>

AddNoteTags(arrays, cap) ==
  \E id \in ReqIds(cap), body \in AddBodies(arrays) :
    LET r == PostNoteTags(notes, noteTags, id, body, clock) IN
    /\ notes' = r.notes
    /\ noteTags' = r.noteTags
    /\ last' = Response("addNoteTags", r)
    /\ UNCHANGED <<editor, clock, photoVars>>

RemoveNoteTag(cap) ==
  \E id \in ReqIds(cap), param \in TagParams :
    LET r == DeleteNoteTag(notes, noteTags, id, param, clock) IN
    /\ notes' = r.notes
    /\ noteTags' = r.noteTags
    /\ last' = Response("removeNoteTag", r)
    /\ UNCHANGED <<editor, clock, photoVars>>

\* Time passes between requests.
Tick ==
  /\ clock < MaxClock
  /\ clock' = clock + 1
  /\ UNCHANGED <<editor, notes, noteTags, last, photoVars>>

\* The directory listings over the files P, named by relative path:
\* distinct paths in the order readdir returns them.
ListingsOver(P) ==
  {q \in UNION {[1..n -> P] : n \in 0..Cardinality(P)} :
     \A i, j \in 1..Len(q) : i # j => q[i] # q[j]}

PhotoIds == 1..MaxPhotoId

PhotoPatchBodies ==
  {[title |-> Text("t")], [description |-> Text("d")], [rating |-> Num(3, 1)],
   [rating |-> Null], [rating |-> Num(0, 1)], [rating |-> Num(6, 1)],
   [title |-> Text("t"), rating |-> Num(6, 1)],
   [description |-> Null, rating |-> Num(0, 1), date_taken |-> Text("x")],
   [date_taken |-> Text("x")], [title |-> Null, rating |-> Num(3, 1)],
   [rating |-> Num(5, 2)]}

\* POST /api/scan up to its await: the request waits for the listing.
\* A scan request arrives and is suspended on its directory listing, while
\* fewer than cap are.
ScanBeginUpTo(cap) ==
  /\ scans < cap
  /\ scans' = scans + 1
  /\ UNCHANGED <<editor, noteVars, clock, last, photos, photoAlbums, photoTags, nextPhotoId,
                         albumVars, tagVars>>

ScanBegin == ScanBeginUpTo(MaxScans)

\* The listing arrives and the rest of the handler runs without interruption.
ScanFinish(listings) ==
  \E scanned \in listings :
    LET r == ScanApply(photos, photoAlbums, photoTags, nextPhotoId, scanned, clock) IN
    /\ scans > 0
    /\ r.nextPhotoId <= MaxPhotoId + 1
    /\ scans' = scans - 1
    /\ photos' = r.photos
    /\ photoAlbums' = r.photoAlbums
    /\ photoTags' = r.photoTags
    /\ nextPhotoId' = r.nextPhotoId
    /\ last' = [op |-> "scan", status |-> 200, error |-> "", scanned |-> scanned,
                 added |-> r.added, removed |-> r.removed, total |-> r.total]
    /\ UNCHANGED <<editor, noteVars, clock, albumVars, tagVars>>

\* The listing throws at some point: the catch block answers 500.
ScanFail(listings) ==
  \E partial \in listings :
    LET r == ScanFailed(photos, photoAlbums, photoTags, nextPhotoId, partial, clock) IN
    /\ scans > 0
    /\ r.nextPhotoId <= MaxPhotoId + 1
    /\ scans' = scans - 1
    /\ photos' = r.photos
    /\ photoAlbums' = r.photoAlbums
    /\ photoTags' = r.photoTags
    /\ nextPhotoId' = r.nextPhotoId
    /\ last' = [op |-> "scan", status |-> 500, error |-> "Failed to scan directory"]
    /\ UNCHANGED <<editor, noteVars, clock, albumVars, tagVars>>

UpdatePhoto(bodies) ==
  \E id \in PhotoIds, body \in bodies :
    LET r == PatchPhoto(photos, id, body, clock) IN
    /\ photos' = r.photos
    /\ last' = Response("updatePhoto", r)
    /\ UNCHANGED <<editor, noteVars, clock, photoAlbums, photoTags, nextPhotoId, scans,
                           albumVars, tagVars>>

\* Query strings of GET /api/notes: around the pages and the limit, ...
PageStrings == {<<"1">>, <<"2">>, <<"0">>, <<"-", "1">>, <<"9", "9">>, <<"x">>}
LimitStrings == {<<"1">>, <<"0">>, <<"-", "1">>, <<"1", "0", "1">>}
PageQueries ==
  {[page |-> pg, limit |-> lm] : pg \in PageStrings, lm \in LimitStrings}
    \cup {[page |-> pg] : pg \in PageStrings} \cup {[limit |-> lm] : lm \in LimitStrings}

\* ... with a tag as clients may write it, ...
TagStrings == {TagA, <<"A">>, PaddedUpperA, TagB, Blank, <<"x">>}
TagQueries == {[tag |-> t] : t \in TagStrings}

\* ... with a search text, ...
SearchQueries ==
  {[search |-> <<"a">>], [search |-> <<"A">>], [search |-> <<"b">>, tag |-> TagA]}

\* ... and with a sort key, with and without a filter and a direction.
SortKeys ==
  {[sort |-> "updatedAt"], [sort |-> "other"], [tag |-> TagA, sort |-> "updatedAt"], <<>>}
WithOrder(query, order) ==
  [f \in DOMAIN query \cup {"order"} |-> IF f = "order" THEN order ELSE query[f]]
SortQueries ==
  SortKeys \cup {WithOrder(k, o) : k \in SortKeys, o \in {"asc", "desc"}}

Queries == PageQueries \cup TagQueries \cup SearchQueries \cup SortQueries

\* GET /api/notes with one of the queries.
ListNotesOf(queries) ==
  \E query \in queries :
    \E r \in {GetNotes(notes, noteTags, query)} :
    /\ last' = [op |-> "listNotes", status |-> r.status, error |-> r.error,
                 total |-> r.total, page |-> r.page, limit |-> r.limit,
                 ids |-> [i \in 1..Len(r.notes) |-> r.notes[i].id]]
    /\ UNCHANGED <<editor, noteVars, clock, photoVars>>

ListNotes == ListNotesOf(Queries)

\* Photo tag names as clients send them.
PhotoTagNames == {TagA, <<"A">>}

PhotoTagBodies(names) ==
  {[tags |-> Arr(<<n>>)] : n \in names}
    \cup {[tags |-> Arr(<<n, m>>)] : n, m \in names}
    \cup {[tags |-> NotArray]}

AddPhotoTags(names) ==
  \E id \in PhotoIds, body \in PhotoTagBodies(names) :
    LET r == PostPhotoTags(photos, tags, nextTagId, photoTags, id, body) IN
    /\ tags' = r.tags
    /\ nextTagId' = r.nextTagId
    /\ photoTags' = r.photoTags
    /\ last' = Response("addPhotoTags", r)
    /\ UNCHANGED <<editor, noteVars, clock, photos, photoAlbums, nextPhotoId, scans, albumVars>>

RemovePhotoTag ==
  \E id \in PhotoIds, tagName \in PhotoTagNames \cup {Percent} :
    LET r == DeletePhotoTag(photos, tags, nextTagId, photoTags, id, tagName) IN
    /\ tags' = r.tags
    /\ nextTagId' = r.nextTagId
    /\ photoTags' = r.photoTags
    /\ last' = Response("removePhotoTag", r)
    /\ UNCHANGED <<editor, noteVars, clock, photos, photoAlbums, nextPhotoId, scans, albumVars>>

ListTags ==
  /\ last' = [op |-> "listTags", status |-> 200, error |-> "",
               tags |-> GetTags(tags, photoTags, noteTags)]
  /\ UNCHANGED <<editor, noteVars, clock, photoVars>>

\* Album names as clients send them, and the bodies that carry them.
AlbumNames == {<<"a">>, <<" ", "a">>, <<"b">>, <<" ">>}

AlbumCreateBodies ==
  {[name |-> n] : n \in AlbumNames}
    \cup {[name |-> <<"a">>, description |-> Text("d")], [description |-> Text("d")],
          [name |-> <<>>]}

AlbumPatchBodies ==
  {[name |-> n] : n \in AlbumNames} \cup {[description |-> Text("d")]}

AlbumIds == 0..MaxAlbumId

CreateAlbum(bodies) ==
  \E body \in bodies :
    LET r == PostAlbum(albums, nextAlbumId, photoAlbums, body, clock) IN
    /\ r.nextAlbumId <= MaxAlbumId + 1
    /\ albums' = r.albums
    /\ nextAlbumId' = r.nextAlbumId
    /\ last' = Response("createAlbum", r)
    /\ UNCHANGED <<editor, noteVars, clock, photos, photoAlbums, photoTags, nextPhotoId, scans,
                           tagVars>>

RenameAlbum ==
  \E id \in AlbumIds, body \in AlbumPatchBodies :
    LET r == PatchAlbum(albums, nextAlbumId, photoAlbums, id, body, clock) IN
    /\ albums' = r.albums
    /\ last' = Response("updateAlbum", r)
    /\ UNCHANGED <<editor, noteVars, clock, photos, photoAlbums, photoTags, nextPhotoId, scans,
                           nextAlbumId, tagVars>>

RemoveAlbum ==
  \E id \in AlbumIds :
    LET r == DeleteAlbum(albums, nextAlbumId, photoAlbums, id) IN
    /\ albums' = r.albums
    /\ photoAlbums' = r.photoAlbums
    /\ last' = Response("deleteAlbum", r)
    /\ UNCHANGED <<editor, noteVars, clock, photos, photoTags, nextPhotoId, scans,
                           nextAlbumId, tagVars>>

RemoveAlbumPhoto ==
  \E id \in AlbumIds, photoId \in PhotoIds :
    LET r == DeleteAlbumPhoto(albums, nextAlbumId, photoAlbums, id, photoId) IN
    /\ photoAlbums' = r.photoAlbums
    /\ last' = Response("removeAlbumPhoto", r)
    /\ UNCHANGED <<editor, noteVars, clock, photos, photoTags, nextPhotoId, scans,
                           albumVars, tagVars>>

AddAlbumPhotos(idArrays) ==
  \E id \in AlbumIds, body \in {[photo_ids |-> Arr(a)] : a \in idArrays}
                                  \cup {[photo_ids |-> NotArray]} :
    LET r == PostAlbumPhotos(albums, nextAlbumId, photoAlbums, photos, id, body) IN
    /\ photoAlbums' = r.photoAlbums
    /\ last' = Response("addAlbumPhotos", r)
    /\ UNCHANGED <<editor, noteVars, clock, photos, photoTags, nextPhotoId, scans,
                           albumVars, tagVars>>

\* ------------------------------------------------------------ note editor
\* The editor modal, openNoteEditor.  pc is where it stands, id the note it
\* was opened on (0 for a new note), tags that note's tags as they were when
\* it was opened, content the textarea, pending the pendingTags list, queue
\* the tags the running save has still to remove, error the error line.
Closed ==
  [pc |-> "closed", id |-> 0, tags |-> <<>>, content |-> <<>>, pending |-> <<>>,
   queue |-> <<>>, error |-> ""]

EmptyContentError == "Note content cannot be empty."

\* addTag of the tag input: the list of chips after name was entered.
addTag(chips, name) ==
  LET normalized == toLowerCase(trim(name)) IN
  IF normalized = <<>> \/ Len(normalized) > MaxTagLen THEN chips
  ELSE IF normalized \in Range(chips) THEN chips
  ELSE IF Len(chips) >= MaxTags THEN chips
  ELSE Append(chips, normalized)

\* pendingTags.filter(t => !note.tags.includes(t))
toAdd(ed) == SelectNot(ed.pending, Range(ed.tags))

\* note.tags.filter(t => !pendingTags.includes(t))
toRemove(ed) == SelectNot(ed.tags, Range(ed.pending))

\* request() of the client: a response that is not ok is thrown.
Thrown(r) == ~(r.status \in 200..299)

\* The save handler after the last response: the modal is removed.
Saved(ed) == [ed EXCEPT !.pc = "saved", !.queue = <<>>, !.error = ""]

\* The save handler's loop over toRemove with queue left to go.
Drain(ed, queue) ==
  IF queue = <<>> THEN Saved(ed)
  ELSE [ed EXCEPT !.pc = "remove", !.queue = queue, !.error = ""]

\* The catch block of the save handler: the modal stays and shows the error.
Caught(ed, r) == [ed EXCEPT !.pc = "open", !.queue = <<>>, !.error = r.error]

\* A note of the list is selected: the editor opens on it.
OpenEditor ==
  \E i \in 1..Len(notes) :
    /\ editor.pc \in {"closed", "saved"}
    /\ editor' = [pc |-> "open", id |-> notes[i].id, tags |-> notes[i].tags,
                  content |-> notes[i].content, pending |-> notes[i].tags,
                  queue |-> <<>>, error |-> ""]
    /\ UNCHANGED <<noteVars, clock, last, photoVars>>

\* The new-note button: the editor opens empty.
OpenNewEditor ==
  /\ editor.pc \in {"closed", "saved"}
  /\ editor' = [Closed EXCEPT !.pc = "open"]
  /\ UNCHANGED <<noteVars, clock, last, photoVars>>

\* The textarea is typed into.
EditorType(contents) ==
  \E c \in contents :
    /\ editor.pc = "open"
    /\ editor' = [editor EXCEPT !.content = c]
    /\ UNCHANGED <<noteVars, clock, last, photoVars>>

\* A tag is entered into the tag input.
EditorAddTag(names) ==
  \E name \in names :
    /\ editor.pc = "open"
    /\ editor' = [editor EXCEPT !.pending = addTag(@, name)]
    /\ UNCHANGED <<noteVars, clock, last, photoVars>>

\* A chip of the tag input is removed.
EditorRemoveTag(chips) ==
  \E tag \in chips \cap Range(editor.pending) :
    /\ editor.pc = "open"
    /\ editor' = [editor EXCEPT !.pending = SelectNot(@, {tag})]
    /\ UNCHANGED <<noteVars, clock, last, photoVars>>

\* Cancel, or a click on the backdrop.
EditorCancel ==
  /\ editor.pc = "open"
  /\ editor' = Closed
  /\ UNCHANGED <<noteVars, clock, last, photoVars>>

\* The save button, up to the response to the first request and what the
\* handler does on receiving it: createNote for a new note, updateNote for
\* an existing one.
SaveBegin(cap) ==
  LET content == trim(editor.content) IN
  /\ editor.pc = "open"
  /\ IF content = <<>>
     THEN /\ editor' = [editor EXCEPT !.error = EmptyContentError]
          /\ UNCHANGED <<noteVars, clock, last, photoVars>>
     ELSE IF editor.id = 0
     THEN \E id \in NoteIds(cap) :
            LET r == PostNote(notes, noteTags,
                              [content |-> content, tags |-> Arr(editor.pending)],
                              id, clock)
            IN
            /\ Len(r.notes) <= cap
            /\ notes' = r.notes
            /\ noteTags' = r.noteTags
            /\ last' = Response("createNote", r)
            /\ editor' = IF Thrown(r) THEN Caught(editor, r) ELSE Saved(editor)
            /\ UNCHANGED <<clock, photoVars>>
     ELSE LET r == PatchNote(notes, noteTags, editor.id, [content |-> content], clock) IN
          /\ notes' = r.notes
          /\ noteTags' = r.noteTags
          /\ last' = Response("updateNote", r)
          /\ editor' = IF Thrown(r) THEN Caught(editor, r)
                       ELSE IF toAdd(editor) # <<>>
                       THEN [editor EXCEPT !.pc = "add", !.error = ""]
                       ELSE Drain(editor, toRemove(editor))
          /\ UNCHANGED <<clock, photoVars>>

\* The response to addNoteTags(note.id, toAdd) arrives.
SaveAdd ==
  LET r == PostNoteTags(notes, noteTags, editor.id, [tags |-> Arr(toAdd(editor))], clock) IN
  /\ editor.pc = "add"
  /\ notes' = r.notes
  /\ noteTags' = r.noteTags
  /\ last' = Response("addNoteTags", r)
  /\ editor' = IF Thrown(r) THEN Caught(editor, r) ELSE Drain(editor, toRemove(editor))
  /\ UNCHANGED <<clock, photoVars>>

\* The response to removeNoteTag(note.id, tag) arrives, tag being the next
\* of toRemove.
SaveRemove ==
  /\ editor.pc = "remove"
  /\ LET r == DeleteNoteTag(notes, noteTags, editor.id, Head(editor.queue), clock) IN
     /\ notes' = r.notes
     /\ noteTags' = r.noteTags
     /\ last' = Response("removeNoteTag", r)
     /\ editor' = IF Thrown(r) THEN Caught(editor, r) ELSE Drain(editor, Tail(editor.queue))
     /\ UNCHANGED <<clock, photoVars>>

Init ==
  /\ notes = <<>>
  /\ noteTags = <<>>
  /\ clock = 0
  /\ last = [op |-> "none", status |-> 0, error |-> ""]
  /\ photos = <<>>
  /\ photoAlbums = <<>>
  /\ photoTags = <<>>
  /\ nextPhotoId = 1
  /\ scans = 0
  /\ albums = <<>>
  /\ nextAlbumId = 1
  /\ tags = <<>>
  /\ nextTagId = 1
  /\ editor = Closed

\* The note store with several notes and short tag lists.
NoteNext ==
  \/ CreateNote(PairArrays, MaxNotes)
  \/ UpdateNote(EditedContents, MaxNotes)
  \/ RemoveNote(MaxNotes)
  \/ AddNoteTags(PairArrays, MaxNotes)
  \/ RemoveNoteTag(MaxNotes)

Spec == Init /\ [][NoteNext]_vars

\* The note store around the tag limit.
\* Arrays over two tags together with the ones around the tag limit.
LimitArrays == FewArrays \cup BulkArrays

LimitNext ==
  \/ CreateNote(LimitArrays, LimitNotes)
  \/ UpdateNote(Contents, LimitNotes)
  \/ RemoveNote(LimitNotes)
  \/ AddNoteTags(LimitArrays, LimitNotes)
  \/ RemoveNoteTag(LimitNotes)

LimitSpec == Init /\ [][LimitNext]_vars

\* The note store with a running clock.
ClockNext ==
  \/ CreateNote(SmallArrays, LimitNotes)
  \/ UpdateNote(EditedContents, LimitNotes)
  \/ RemoveNote(LimitNotes)
  \/ AddNoteTags(SmallArrays, LimitNotes)
  \/ RemoveNoteTag(LimitNotes)
  \/ Tick

ClockSpec == Init /\ [][ClockNext]_vars

\* The photo store: scans and metadata edits.
EditListings == ListingsOver(1..EditPaths)

PhotoNext ==
  \/ ScanBegin
  \/ ScanFinish(EditListings)
  \/ ScanFail(EditListings)
  \/ UpdatePhoto(PhotoPatchBodies)
  \/ Tick

PhotoSpec == Init /\ [][PhotoNext]_vars

\* The note store and its listing.
ListArrays == {<<>>, <<PaddedUpperA, TagB>>}

ListNext ==
  \/ CreateNote(ListArrays, MaxNotes)
  \/ UpdateNote(Contents, MaxNotes)
  \/ RemoveNote(MaxNotes)
  \/ ListNotes
  \/ Tick

ListSpec == Init /\ [][ListNext]_vars

\* Listings of a directory that holds one image file or none.
OneFile == {<<>>, <<1>>}

\* Notes with one tag beside photos with one tag.
OneTagArray == {<<TagA>>}
OneTagName == {TagA}

TagNext ==
  \/ CreateNote(OneTagArray, LimitNotes)
  \/ RemoveNote(LimitNotes)
  \/ RemoveNoteTag(LimitNotes)
  \/ ScanBegin
  \/ ScanFinish(OneFile)
  \/ AddPhotoTags(PhotoTagNames)
  \/ RemovePhotoTag
  \/ ListTags

TagSpec == Init /\ [][TagNext]_vars

\* The same with several notes.
TagCountNext ==
  \/ CreateNote(OneTagArray, MaxNotes)
  \/ RemoveNote(MaxNotes)
  \/ ScanBegin
  \/ ScanFinish(OneFile)
  \/ AddPhotoTags(PhotoTagNames)
  \/ ListTags

TagCountSpec == Init /\ [][TagCountNext]_vars

\* Listings of a directory in which files come and go.
SomeFiles == {<<>>, <<1>>, <<2, 1>>, <<2, 3>>}

TitleBodies == {[title |-> Text("t")]}
OneAlbumBody == {[name |-> <<"a">>]}
ScanAlbumLists == {<<1, 2>>, <<3>>}

\* Scans of a directory whose photos carry a title, a tag and an album.
ScanNext ==
  \/ ScanBegin
  \/ ScanFinish(SomeFiles)
  \/ ScanFail(SomeFiles)
  \/ UpdatePhoto(TitleBodies)
  \/ AddPhotoTags(OneTagName)
  \/ CreateAlbum(OneAlbumBody)
  \/ AddAlbumPhotos(ScanAlbumLists)

ScanSpec == Init /\ [][ScanNext]_vars

OneContent == {<<"a">>}
OtherTagArray == {<<TagB>>}

\* A few notes edited while the clock runs.
StampNext ==
  \/ CreateNote(OneTagArray, LimitNotes)
  \/ UpdateNote(OneContent, LimitNotes)
  \/ RemoveNote(LimitNotes)
  \/ AddNoteTags(OtherTagArray, LimitNotes)
  \/ RemoveNoteTag(LimitNotes)
  \/ Tick

StampSpec == Init /\ [][StampNext]_vars

\* A store that grows past the largest page: one more note than the limit
\* cap, each under a fresh id, listed with limits around the cap.
ManyNotes == MaxLimit + 1
WideLimits == {<<"5", "0">>, <<"1", "0", "1">>}
WideQueries == {[page |-> pg, limit |-> <<"1", "0", "1">>] : pg \in {<<"1">>, <<"2">>}}

PageNext ==
  \/ CreateNoteOf({[content |-> <<"a">>]}, {Len(notes) + 1}, ManyNotes)
  \/ ListNotesOf(WideQueries)

PageSpec == Init /\ [][PageNext]_vars

\* Scan requests that overlap: each is suspended on its listing while
\* another begins, completes or fails.
OverlapNext ==
  \/ ScanBeginUpTo(MaxOverlap)
  \/ ScanFinish(SomeFiles)
  \/ ScanFail(SomeFiles)

OverlapSpec == Init /\ [][OverlapNext]_vars

\* One note, created with a full tag list or with one tag, and the editor
\* on it: tags are entered and removed, and the edit is saved.  No request
\* but the editor's own touches the note while the editor is open.
EditBodies ==
  {[content |-> <<"a">>, tags |-> Arr(ta)] : ta \in {Bulk(MaxTags), <<TagA>>}}
EditContents == {<<>>, <<" ", "b">>}
EditNames == {TagB, PaddedUpperA}
EditChips == {Xs(1), TagA, TagB}

EditNext ==
  \/ CreateNoteOf(EditBodies, NoteIds(LimitNotes), LimitNotes)
  \/ OpenEditor
  \/ OpenNewEditor
  \/ EditorType(EditContents)
  \/ EditorAddTag(EditNames)
  \/ EditorRemoveTag(EditChips)
  \/ EditorCancel
  \/ SaveBegin(LimitNotes)
  \/ SaveAdd
  \/ SaveRemove

EditSpec == Init /\ [][EditNext]_vars

\* Photo tags written in several ways.
RowTagNames == {TagA, <<"A">>, TagB, <<" ", "a">>}

RowNext ==
  \/ ScanBegin
  \/ ScanFinish(OneFile)
  \/ AddPhotoTags(RowTagNames)
  \/ RemovePhotoTag

RowSpec == Init /\ [][RowNext]_vars

\* Photos, albums and tags joined and taken apart.
TwoFiles == {<<1>>, <<1, 2>>}

JoinAlbumLists == {<<1>>, <<2, 1>>, <<1, 1>>}

JoinNext ==
  \/ ScanBegin
  \/ ScanFinish(TwoFiles)
  \/ CreateAlbum(OneAlbumBody)
  \/ RemoveAlbum
  \/ AddAlbumPhotos(JoinAlbumLists)
  \/ RemoveAlbumPhoto
  \/ AddPhotoTags(OneTagName)
  \/ RemovePhotoTag

JoinSpec == Init /\ [][JoinNext]_vars

\* Two albums sharing a photo that carries a tag.
FrameFiles == {<<1>>}
TwoAlbumBodies == {[name |-> <<"a">>], [name |-> <<"b">>]}
FrameAlbumLists == {<<1>>}

FrameNext ==
  \/ ScanBegin
  \/ ScanFinish(FrameFiles)
  \/ CreateAlbum(TwoAlbumBodies)
  \/ RemoveAlbum
  \/ AddAlbumPhotos(FrameAlbumLists)
  \/ AddPhotoTags(OneTagName)

FrameSpec == Init /\ [][FrameNext]_vars

\* The albums: create, rename, delete.
AlbumNext ==
  \/ CreateAlbum(AlbumCreateBodies)
  \/ RenameAlbum
  \/ RemoveAlbum
  \/ Tick

AlbumSpec == Init /\ [][AlbumNext]_vars

\* ------------------------------------------------------------------ claims
Bucket(idx, t) == IF t \in DOMAIN idx THEN idx[t] ELSE {}
TagSet(note) == Range(note.tags)
TagsInUse(ns) == UNION {TagSet(ns[i]) : i \in 1..Len(ns)}
TagLists(ns) == [i \in 1..Len(ns) |-> ns[i].tags]
HasNote(ns, id) == findNoteIndex(ns, id) # 0
StoredIds(ns) == {ns[i].id : i \in 1..Len(ns)}

\* C1: index consistency.  Every note's id is in the bucket of each of its
\* tags, and every id in a bucket is the id of a stored note that lists the
\* bucket's tag.
C1_IndexConsistent ==
  /\ \A i \in 1..Len(notes) : \A t \in TagSet(notes[i]) :
       notes[i].id \in Bucket(noteTags, t)
  /\ \A t \in DOMAIN noteTags : \A id \in noteTags[t] :
       \E i \in 1..Len(notes) : notes[i].id = id /\ t \in TagSet(notes[i])

\* C2: note ids are unique.  No two stored notes have the same id.
C2_UniqueIds ==
  \A i, j \in 1..Len(notes) : i # j => notes[i].id # notes[j].id

\* C3: a note request answered with an error leaves the notes collection
\* and the noteTags index as they were.
C3_ErrorsChangeNothing ==
  [][last'.status >= 400 => notes' = notes /\ noteTags' = noteTags]_vars

C3_Witness ==
  /\ last.op = "removeNoteTag"
  /\ last.error = "Tag not found on this note"
  /\ \E i \in 1..Len(notes) : notes[i].tags # <<>>

\* C4: a PATCH /photos/:id rejected with 400 for its rating leaves the photo
\* unchanged, also when the body carries a title or a description.
C4_RejectedPatchChangesNothing ==
  [][last'.op = "updatePhoto" /\ last'.status = 400 => photos' = photos]_vars

\* C5: tag constraints.  Every note's tag list has no duplicates and at most
\* 10 entries, each non-empty, trimmed, lowercased and at most 32 long.
C5_TagConstraints ==
  \A i \in 1..Len(notes) :
    /\ Cardinality(TagSet(notes[i])) = Len(notes[i].tags)
    /\ Len(notes[i].tags) <= MaxTags
    /\ \A t \in TagSet(notes[i]) :
         /\ t # <<>>
         /\ trim(t) = t
         /\ toLowerCase(t) = t
         /\ Len(t) <= MaxTagLen

C5_Witness ==
  \E i \in 1..Len(notes) :
    /\ Len(notes[i].tags) = MaxTags
    /\ \E t \in TagSet(notes[i]) : Len(t) = MaxTagLen

\* C6: no bucket is empty.  The keys of noteTags are exactly the tags carried
\* by at least one stored note.
C6_KeysAreTagsInUse == DOMAIN noteTags = TagsInUse(notes)

\* C7: a successful delete(id) removes the note with that id and the id from
\* the bucket of each tag the note held, and nothing else: the other notes
\* and the other ids in every bucket stay, and every surviving note is found
\* in the bucket of each of its tags.
C7_DeleteFrame ==
  [][last'.op = "deleteNote" /\ last'.status = 204 =>
       \E id \in StoredIds(notes) :
         LET i == findNoteIndex(notes, id) IN
         /\ ~HasNote(notes', id)
         /\ notes' = Splice(notes, i)
         /\ \A t \in DOMAIN noteTags \cup DOMAIN noteTags' :
              Bucket(noteTags', t) =
                IF t \in TagSet(notes[i]) THEN Bucket(noteTags, t) \ {id}
                ELSE Bucket(noteTags, t)
         /\ \A j \in 1..Len(notes') : \A t \in TagSet(notes'[j]) :
              notes'[j].id \in Bucket(noteTags', t)]_vars

\* C8: addTags on an existing note with an array of tags none longer than 32
\* answers 400 'Tag limit exceeded' exactly when the tags on the note plus
\* the distinct normalized non-empty incoming tags not on the note exceed 10.
C8_LimitExactlyWhenOver ==
  \A id \in StoredIds(notes), ta \in SmallArrays \cup BulkArrays :
    (\A k \in 1..Len(ta) : Len(ta[k]) <= MaxTagLen) =>
      LET note == notes[findNoteIndex(notes, id)]
          r == PostNoteTags(notes, noteTags, id, [tags |-> Arr(ta)], clock)
          genuinelyNew == ({normalizeTag(ta[k]) : k \in 1..Len(ta)} \ {<<>>})
                            \ TagSet(note)
      IN (r.status = 400 /\ r.error = "Tag limit exceeded")
           <=> (Len(note.tags) + Cardinality(genuinelyNew) > MaxTags)

C8_Witness ==
  /\ last.op = "addNoteTags"
  /\ last.error = "Tag limit exceeded"
  /\ \E i \in 1..Len(notes) : Len(notes[i].tags) = MaxTags - 1

\* C9: an addTags request that adds no tag (only blank tags, or only tags
\* already on the note) answers 200 and leaves the note's tags, the index
\* and the note's updatedAt unchanged.
C9_NoOpAddBumpsNothing ==
  [][(last'.op = "addNoteTags" /\ last'.status = 200 /\ TagLists(notes') = TagLists(notes))
       => notes' = notes /\ noteTags' = noteTags]_vars

\* Tags that are valid as they are sent: non-empty after normalization and
\* at most 32 long.
ValidTags == {TagA, PaddedUpperA, TagB, Percent, Xs(MaxTagLen)}

\* C10: round trip.  For every stored note and every valid tag T,
\* addTags(id, [T]) followed by removeTag(id, T) gives back the note's tag
\* list and the index as they were before.
C10_RoundTrip ==
  \A id \in StoredIds(notes), T \in ValidTags :
      LET i == findNoteIndex(notes, id)
          r1 == PostNoteTags(notes, noteTags, id, [tags |-> Arr(<<T>>)], clock)
          r2 == DeleteNoteTag(r1.notes, r1.noteTags, id, T, clock)
      IN r2.notes[i].tags = notes[i].tags /\ r2.noteTags = noteTags

\* A stored tag written the ways a client may send it again: as it is, in
\* upper case, and with surrounding whitespace.
UpperChar(c) == IF c = "a" THEN "A" ELSE c
toUpperCase(s) == [i \in 1..Len(s) |-> UpperChar(s[i])]
Spellings(t) ==
  {t, toUpperCase(t), <<" ">> \o t, t \o <<" ">>, <<" ">> \o toUpperCase(t) \o <<" ">>}

\* C11: addTags is idempotent.  Adding a tag that is already on the note, in
\* any letter case and with any surrounding whitespace, alone or twice in one
\* request, answers 200 and leaves the note's tag list and the whole index
\* as they were.
C11_AddExistingIsNoOp ==
  \A id \in StoredIds(notes) :
    LET i == findNoteIndex(notes, id) IN
    \A t \in TagSet(notes[i]) : \A w \in Spellings(t) :
      \A ta \in {<<w>>, <<w, t>>} :
        LET r == PostNoteTags(notes, noteTags, id, [tags |-> Arr(ta)], clock) IN
        /\ r.status = 200
        /\ TagLists(r.notes) = TagLists(notes)
        /\ r.noteTags = noteTags

\* A note carries "a" and an addTags request has just been answered 200.
C11_Witness ==
  /\ last.op = "addNoteTags"
  /\ last.status = 200
  /\ \E i \in 1..Len(notes) : TagA \in TagSet(notes[i]) /\ Len(notes[i].tags) > 1

\* C12: album names are unique.  In every reachable state no two albums
\* have the same stored name.
C12_UniqueAlbumNames ==
  \A i, j \in 1..Len(albums) : i # j => albums[i].name # albums[j].name

\* The page and the limit a query asks for, as numbers.
PageOf(query) == parseInt(queryParam(query, "page", <<"1">>))
LimitOf(query) == parseInt(queryParam(query, "limit", <<"2", "0">>))
Reverse(seq) == [i \in 1..Len(seq) |-> seq[Len(seq) + 1 - i]]
Max(a, b) == IF a > b THEN a ELSE b
Min(a, b) == IF a < b THEN a ELSE b

\* C13: out-of-range pages yield an empty slice.  For a limit of at least 1
\* and a page that is zero, negative or past the last result, GET /notes
\* answers 200 with no notes and the total of the filtered notes.
C13_OutOfRangeEmpty ==
  \A q \in PageQueries :
    LET r == GetNotes(notes, noteTags, q)
        p == PageOf(q)
        l == LimitOf(q)
        total == Len(filterNotes(notes, noteTags, q))
    IN (p # NaN /\ l # NaN /\ l.n >= 1
          /\ (p.n <= 0 \/ (p.n - 1) * Min(l.n, MaxLimit) >= total))
         => r.status = 200 /\ r.notes = <<>> /\ r.total = total

\* C14: limit cap.  For every requested limit and page GET /notes returns at
\* most 100 notes and no more notes than the requested limit (none for a
\* limit of zero or less).
C14_LimitCap ==
  \A q \in PageQueries :
    LET r == GetNotes(notes, noteTags, q)
        l == LimitOf(q)
    IN /\ Len(r.notes) <= MaxLimit
       /\ l # NaN => Len(r.notes) <= Max(l.n, 0)

\* C15: sort direction.  For every filter and sort key, the notes returned
\* with order=asc are those returned with order=desc in reverse order, also
\* when notes have equal values of the sort key.
C15_AscReversesDesc ==
  \A k \in SortKeys :
    GetNotes(notes, noteTags, WithOrder(k, "asc")).notes
      = Reverse(GetNotes(notes, noteTags, WithOrder(k, "desc")).notes)

\* The stored notes whose tag list contains t, in store order.
Carrying(ns, t) == SelectSeq(ns, LAMBDA n : t \in TagSet(n))

\* C16: note tag filter.  GET /notes?tag=X answers 200 with exactly the
\* stored notes whose tag list contains normalizeTag(X), and with no notes
\* and total 0 when no note carries it.
C16_TagFilterNormalized ==
  \A X \in TagStrings :
    LET r == GetNotes(notes, noteTags, [tag |-> X])
        want == Carrying(notes, normalizeTag(X))
    IN /\ r.status = 200
       /\ r.notes = sortNotes(want, "createdAt", "desc")
       /\ r.total = Len(want)

\* The entries GET /tags returns that are named n.
EntriesNamed(entries, n) == {k \in DOMAIN entries : entries[k].name = n}
RowNamed(tgs, n) == \E i \in 1..Len(tgs) : tgs[i].name = n

\* C17 as claimed: once no note carries T any more (its last carrier was
\* deleted or lost the tag), GET /tags has no entry named T, whatever photo
\* tags there are.
C17_NoEntryAfterLastCarrier ==
  [][\A T \in TagsInUse(notes) \ TagsInUse(notes') :
       EntriesNamed(GetTags(tags', photoTags', noteTags'), T) = {}]_vars

\* C17, amended: once no note carries T any more, GET /tags has no entry
\* named T unless a photo tag row is named T, and then the entry has
\* noteCount 0.
C17_NoNoteEntryAfterLastCarrier ==
  [][\A T \in TagsInUse(notes) \ TagsInUse(notes') :
       LET entries == GetTags(tags', photoTags', noteTags') IN
       \A k \in EntriesNamed(entries, T) :
         entries[k].noteCount = 0 /\ RowNamed(tags', T)]_vars

\* The only tagged note has just lost its tag "a" while a photo tag row is
\* named "a".
C17_Witness ==
  /\ last.op = "removeNoteTag"
  /\ last.status = 200
  /\ notes # <<>>
  /\ TagsInUse(notes) = {}
  /\ RowNamed(tags, TagA)

\* C18: GET /tags counts.  Every entry's noteCount is the number of stored
\* notes that carry the entry's tag, its photoCount the number of stored
\* photos tied to the tag row of that name, and every tag carried by a note
\* has exactly one entry.  Names are compared without regard to case.
C18_TagCounts ==
  LET entries == GetTags(tags, photoTags, noteTags) IN
  /\ \A k \in DOMAIN entries :
       LET t == toLowerCase(entries[k].name) IN
       /\ entries[k].noteCount
            = Cardinality({i \in 1..Len(notes) : t \in TagSet(notes[i])})
       /\ entries[k].photoCount
            = Cardinality({i \in 1..Len(photos) :
                 \E j \in 1..Len(tags) :
                   /\ toLowerCase(tags[j].name) = t
                   /\ [photo_id |-> photos[i].id, tag_id |-> tags[j].id]
                        \in Range(photoTags)})
  /\ \A t \in TagsInUse(notes) :
       Cardinality({k \in DOMAIN entries : toLowerCase(entries[k].name) = t}) = 1

Paths(ps) == {ps[i].file_path : i \in 1..Len(ps)}
RowsOf(join, photoId) == {row \in Range(join) : row.photo_id = photoId}

\* C19: scan reconciliation.  A successful scan with the listing S leaves
\* exactly the paths of S stored; a photo whose path was stored before keeps
\* its id, its metadata and its album and tag rows; a new photo has null
\* title, description, rating and date_taken; and the response counts are
\* added = |S - stored before|, removed = |stored before - S|, total = the
\* number of stored photos.
C19_ScanReconciles ==
  [][(scans' = scans - 1 /\ last'.op = "scan" /\ last'.status = 200) =>
       LET S == Range(last'.scanned)
           before == Paths(photos)
       IN /\ Paths(photos') = S
          /\ Len(photos') = Cardinality(S)
          /\ \A i \in 1..Len(photos) :
               photos[i].file_path \in S =>
                 /\ photos[i] \in Range(photos')
                 /\ RowsOf(photoAlbums', photos[i].id) = RowsOf(photoAlbums, photos[i].id)
                 /\ RowsOf(photoTags', photos[i].id) = RowsOf(photoTags, photos[i].id)
          /\ \A j \in 1..Len(photos') :
               photos'[j].file_path \notin before =>
                 /\ photos'[j].title = Null
                 /\ photos'[j].description = Null
                 /\ photos'[j].rating = Null
                 /\ photos'[j].date_taken = Null
          /\ last'.added = Cardinality(S \ before)
          /\ last'.removed = Cardinality(before \ S)
          /\ last'.total = Len(photos')]_vars

\* A scan has added one file and removed one, and the photo it kept has a
\* title, a tag and an album.
C19_Witness ==
  /\ last.op = "scan"
  /\ last.status = 200
  /\ last.added = 1
  /\ last.removed = 1
  /\ \E i \in 1..Len(photos) :
       /\ photos[i].title # Null
       /\ RowsOf(photoTags, photos[i].id) # {}
       /\ RowsOf(photoAlbums, photos[i].id) # {}

\* C20: a failed scan answers 500 and leaves photos, photoAlbums, photoTags
\* and the photo id counter as they were.
C20_FailedScanChangesNothing ==
  [][(scans' = scans - 1 /\ last'.op = "scan" /\ last'.status = 500) =>
       /\ photos' = photos
       /\ photoAlbums' = photoAlbums
       /\ photoTags' = photoTags
       /\ nextPhotoId' = nextPhotoId]_vars

\* A scan has failed on a store that holds a photo with a tag and an album.
C20_Witness ==
  /\ last.op = "scan"
  /\ last.status = 500
  /\ photos # <<>>
  /\ photoTags # <<>>
  /\ photoAlbums # <<>>

PhotoIdsOf(ps) == {ps[i].id : i \in 1..Len(ps)}
RowsOfPhotos(join, ids) == {row \in Range(join) : row.photo_id \in ids}

\* C21: scan visibility is atomic.  A scan request changes nothing up to
\* its await; the step that completes it applies all of its additions,
\* removals and cascades at once; and every other step, also one taken while
\* a scan is suspended, adds and removes no photo and hands out no photo id.
C21_ScanAtomic ==
  [][IF scans' = scans - 1 /\ last'.op = "scan" /\ last'.status = 200
     THEN /\ Paths(photos') = Range(last'.scanned)
          /\ Range(photoAlbums') = RowsOfPhotos(photoAlbums, PhotoIdsOf(photos'))
          /\ Range(photoTags') = RowsOfPhotos(photoTags, PhotoIdsOf(photos'))
          /\ nextPhotoId' = nextPhotoId + last'.added
     ELSE /\ PhotoIdsOf(photos') = PhotoIdsOf(photos)
          /\ Paths(photos') = Paths(photos)
          /\ nextPhotoId' = nextPhotoId
          /\ scans' = scans + 1 =>
               photos' = photos /\ photoAlbums' = photoAlbums /\ photoTags' = photoTags]_vars

\* A photo has been tagged while a scan was waiting for its listing.
C21_Witness ==
  /\ scans > 0
  /\ last.op = "addPhotoTags"
  /\ last.status = 200
  /\ photoTags # <<>>

\* C22: rating range.  Every stored photo's rating is null or an integer
\* from 1 to 5.
C22_RatingRange ==
  \A i \in 1..Len(photos) :
    \/ photos[i].rating = Null
    \/ /\ photos[i].rating.t = "num"
       /\ photos[i].rating.n % photos[i].rating.d = 0
       /\ photos[i].rating.n \div photos[i].rating.d \in 1..5

\* C23: deletion is terminal.  Once a delete of an id has been answered 204
\* no note with that id is stored, and the request that follows, a create
\* included, does not bring a note with that id into the store.
C23_DeletedIdStaysGone ==
  [][(last.op = "deleteNote" /\ last.status = 204) =>
       /\ ~HasNote(notes, last.id)
       /\ ~HasNote(notes', last.id)]_vars

\* C24: photo tag rows are unique ignoring case.  No two rows have names that
\* are equal when lowercased, and adding to a photo a name that matches a
\* row in this way adds no row.
C24_TagRowsUniqueIgnoringCase ==
  /\ \A i, j \in 1..Len(tags) :
       i # j => toLowerCase(tags[i].name) # toLowerCase(tags[j].name)
  /\ \A p \in PhotoIdsOf(photos) : \A i \in 1..Len(tags) :
       \A n \in {tags[i].name, toLowerCase(tags[i].name), toUpperCase(tags[i].name)} :
         LET r == PostPhotoTags(photos, tags, nextTagId, photoTags, p,
                                [tags |-> Arr(<<n>>)])
         IN /\ r.status = 200
            /\ r.tags = tags
            /\ [photo_id |-> p, tag_id |-> tags[i].id] \in Range(r.photoTags)

\* Tags have been added to a photo under names that differ in case only,
\* and under another name.
C24_Witness ==
  /\ last.op = "addPhotoTags"
  /\ last.status = 200
  /\ \E i, j \in 1..Len(tags) : tags[i].name = <<"A">> /\ tags[j].name = TagB
  /\ Len(photoTags) = Len(tags)

AlbumIdsOf(als) == {als[i].id : i \in 1..Len(als)}
TagIdsOf(tgs) == {tgs[i].id : i \in 1..Len(tgs)}

\* C25: referential integrity of the join tables.  Every pair of
\* photoAlbums names a stored photo and a stored album, and every pair of
\* photoTags names a stored photo and a row of the tag table.
C25_JoinTablesReferToStoredRows ==
  /\ \A row \in Range(photoAlbums) :
       row.photo_id \in PhotoIdsOf(photos) /\ row.album_id \in AlbumIdsOf(albums)
  /\ \A row \in Range(photoTags) :
       row.photo_id \in PhotoIdsOf(photos) /\ row.tag_id \in TagIdsOf(tags)

\* A scan has just removed a photo that was in an album and carried a tag,
\* while another photo stays in an album.
C25_Witness ==
  /\ last.op = "scan"
  /\ last.status = 200
  /\ last.removed > 0
  /\ photoAlbums # <<>>
  /\ nextTagId > 1
  /\ photoTags = <<>>

\* C30: album deletion cascades and nothing more.  A delete answered 204
\* removes one album and exactly the membership pairs of that album, in
\* place, and leaves the photos, the tag rows, photoTags and the counters
\* as they were.
C30_AlbumDeleteFrame ==
  [][(last'.op = "deleteAlbum" /\ last'.status = 204 /\ albums' # albums) =>
       /\ \E id \in AlbumIdsOf(albums) :
            /\ albums' = SelectSeq(albums, LAMBDA a : a.id # id)
            /\ photoAlbums' = SelectSeq(photoAlbums, LAMBDA row : row.album_id # id)
       /\ photos' = photos
       /\ tags' = tags
       /\ photoTags' = photoTags
       /\ nextPhotoId' = nextPhotoId
       /\ nextAlbumId' = nextAlbumId
       /\ nextTagId' = nextTagId]_vars

\* One of two albums has just been deleted; the other still holds a
\* tagged photo.
C30_Witness ==
  /\ last.op = "deleteAlbum"
  /\ last.status = 204
  /\ Len(albums) = 1
  /\ photoAlbums # <<>>
  /\ photoTags # <<>>

\* The tags of an array as the server reads them: trimmed, lowercased, the
\* empty ones dropped.
Normalized(ta) == {normalizeTag(ta[i]) : i \in 1..Len(ta)} \ {<<>>}

\* Arrays that carry a tag too long together with many, or a few, others.
LongAndMany ==
  {Bulk(MaxTags + 1) \o <<TooLongTag>>, <<TooLongTag>> \o Bulk(MaxTags + 1),
   <<TagA, TagB, <<" ">> \o TooLongTag>>, <<TooLongTag>>, <<TagA, Xs(MaxTagLen)>>}

\* C26: error precedence.  A request that carries a normalized tag longer
\* than 32 characters and more tags than the limit allows is answered with
\* the length error, by create and by addTags, and changes nothing.
C26_LengthBeforeCount ==
  \A ta \in LongAndMany :
    (\E t \in Normalized(ta) : Len(t) > MaxTagLen) =>
      /\ Cardinality(Normalized(ta)) > MaxTags =>
           LET r == PostNote(notes, noteTags, [content |-> <<"a">>, tags |-> Arr(ta)],
                             1, clock)
           IN r.status = 400 /\ r.error = "exceeds 32 characters" /\ r.notes = notes
      /\ \A i \in 1..Len(notes) :
           Cardinality(TagSet(notes[i]) \cup Normalized(ta)) > MaxTags =>
             LET r == PostNoteTags(notes, noteTags, notes[i].id, [tags |-> Arr(ta)], clock)
             IN r.status = 400 /\ r.error = "exceeds 32 characters" /\ r.notes = notes

\* A note holds as many tags as it may, and an addTags that named a tag too
\* long, hence also a tag too many, has been answered with the length
\* error.
C26_Witness ==
  /\ last.op = "addNoteTags"
  /\ last.error = "exceeds 32 characters"
  /\ \E i \in 1..Len(notes) : Len(notes[i].tags) = MaxTags

\* Where a normalized tag first occurs in an array.
FirstAt(ta, t) ==
  CHOOSE i \in 1..Len(ta) :
    normalizeTag(ta[i]) = t /\ \A j \in 1..(i - 1) : normalizeTag(ta[j]) # t

\* Arrays with padding, capitals, blanks and repeats.
MixedArrays ==
  PairArrays \cup {<<TagB, PaddedUpperA, Blank, TagA, <<"B", " ">>>>, <<<<>>, TagA, TagA>>}

\* C27: create stores the incoming tags trimmed and lowercased, without the
\* empty ones, each once, in the order of their first occurrence, and
\* registers the new note's id in the index under each of them.
C27_CreateNormalizes ==
  \A ta \in MixedArrays : \A id \in NoteIds(LimitNotes) :
    LET r == PostNote(notes, noteTags, [content |-> <<"a">>, tags |-> Arr(ta)], id, clock)
        stored == r.notes[Len(r.notes)].tags
    IN (\A t \in Normalized(ta) : Len(t) <= MaxTagLen) =>
         /\ r.status = 201
         /\ Len(r.notes) = Len(notes) + 1
         /\ r.notes[Len(r.notes)].id = id
         /\ Range(stored) = Normalized(ta)
         /\ Len(stored) = Cardinality(Normalized(ta))
         /\ \A i, j \in 1..Len(stored) :
              i < j => FirstAt(ta, stored[i]) < FirstAt(ta, stored[j])
         /\ \A t \in Range(stored) : id \in Bucket(r.noteTags, t)

\* A note has been created with two tags, and both lead to it in the index.
C27_Witness ==
  /\ last.op = "createNote"
  /\ last.status = 201
  /\ \E i \in 1..Len(notes) :
       /\ notes[i].tags = <<TagA, TagB>>
       /\ notes[i].id \in Bucket(noteTags, TagA) \cap Bucket(noteTags, TagB)

\* C29: createdAt is fixed.  A note is created with createdAt equal to
\* updatedAt; no step changes the createdAt of a note that stays in the
\* store; and createdAt never exceeds updatedAt.
C29_CreatedAtFixed ==
  [][/\ \A i \in 1..Len(notes') : notes'[i].createdAt <= notes'[i].updatedAt
     /\ Len(notes') = Len(notes) + 1 =>
          /\ notes'[Len(notes')].createdAt = notes'[Len(notes')].updatedAt
          /\ SubSeq(notes', 1, Len(notes)) = notes
     /\ Len(notes') = Len(notes) =>
          \A i \in 1..Len(notes) :
            notes'[i].id = notes[i].id /\ notes'[i].createdAt = notes[i].createdAt
     /\ Len(notes') < Len(notes) =>
          \E k \in 1..Len(notes) : notes' = Splice(notes, k)]_vars

\* A note created before the clock moved has had a tag removed after it.
C29_Witness ==
  /\ last.op = "removeNoteTag"
  /\ last.status = 200
  /\ \E i \in 1..Len(notes) : notes[i].createdAt < notes[i].updatedAt

\* A number written in decimal, as a client puts it in a query.
DigitOf(n) == CHOOSE c \in Digits : DigitValue(c) = n
RECURSIVE Decimal(_)
Decimal(n) == IF n < 10 THEN <<DigitOf(n)>> ELSE Decimal(n \div 10) \o <<DigitOf(n % 10)>>
CeilDiv(a, b) == (a + b - 1) \div b

RECURSIVE PagesUpTo(_, _, _)
\* The slices of pages 1..k of a query, one after the other.
PagesUpTo(query, lm, k) ==
  IF k = 0 THEN <<>>
  ELSE PagesUpTo(query, lm, k - 1)
         \o GetNotes(notes, noteTags,
                     [f \in DOMAIN query \cup {"page", "limit"} |->
                        IF f = "page" THEN Decimal(k)
                        ELSE IF f = "limit" THEN lm ELSE query[f]]).notes

\* The filtered notes of a query in the order of its sort.
SortedResult(query) ==
  sortNotes(filterNotes(notes, noteTags, query),
            queryParam(query, "sort", "createdAt"), queryParam(query, "order", "desc"))

\* Filters: none, and a tag no note carries.
WideFilters == {<<>>, [tag |-> <<"x">>]}

\* C28: pagination covers the result exactly.  The total is the number of
\* filtered notes whatever the page and the limit, and for a positive limit
\* the slices of pages 1..ceil(total/limit), one after the other, are the
\* filtered notes in sorted order.
C28_PagesCover ==
  \A query \in WideFilters : \A lm \in WideLimits :
    \A sorted \in {SortedResult(query)} :
      /\ PagesUpTo(query, lm, CeilDiv(Len(sorted), parseInt(lm).n)) = sorted
      /\ last.op = "listNotes" => last.total = Len(filterNotes(notes, noteTags, <<>>))

\* C28 with the limit the server applies: the total is the number of
\* filtered notes whatever the page and the limit, and for a positive limit
\* the slices of pages 1..ceil(total/min(limit, 100)), one after the other,
\* are the filtered notes in sorted order.
C28_PagesCoverCapped ==
  \A query \in WideFilters : \A lm \in WideLimits :
    \A sorted \in {SortedResult(query)} :
      /\ PagesUpTo(query, lm, CeilDiv(Len(sorted), Min(parseInt(lm).n, MaxLimit))) = sorted
      /\ last.op = "listNotes" => last.total = Len(filterNotes(notes, noteTags, <<>>))

\* More notes are stored than one page may hold, and the second page of a
\* listing that asked for all of them at once has been served.
C28_Witness ==
  /\ Len(notes) > MaxLimit
  /\ last.op = "listNotes"
  /\ last.page = Int_(2)
  /\ last.total = Len(notes)
  /\ Len(last.ids) = Len(notes) - MaxLimit

NoRepeats(seq) == \A i, j \in 1..Len(seq) : i # j => seq[i] # seq[j]

\* C31: association adds are idempotent.  Neither join table ever holds a
\* pair twice, and an add that names pairs already there, or names one
\* thing twice in its body, leaves one row for each pair.
C31_NoDuplicatePairs ==
  /\ NoRepeats(photoTags)
  /\ NoRepeats(photoAlbums)
  /\ \A p \in PhotoIdsOf(photos) :
       /\ \A a \in AlbumIdsOf(albums) :
            LET r == PostAlbumPhotos(albums, nextAlbumId, photoAlbums, photos, a,
                                     [photo_ids |-> Arr(<<p, p>>)])
            IN /\ r.status = 200
               /\ NoRepeats(r.photoAlbums)
               /\ [photo_id |-> p, album_id |-> a] \in Range(photoAlbums)
                    => r.photoAlbums = photoAlbums
       /\ LET r == PostPhotoTags(photos, tags, nextTagId, photoTags, p,
                                 [tags |-> Arr(<<TagA, TagA>>)])
          IN r.status = 200 /\ NoRepeats(r.photoTags)

\* A photo that is in an album and carries a tag has just been added to
\* the album again.
C31_Witness ==
  /\ last.op = "addAlbumPhotos"
  /\ last.status = 200
  /\ photoAlbums # <<>>
  /\ photoTags # <<>>
  /\ Len(photos) = 2

\* C32: photo tag rows are durable.  No step deletes or changes a tag row;
\* removing a tag from a photo removes one join row at most and nothing
\* else; and GET /tags lists every tag row under its name with the number
\* of its join rows, zero included.
C32_TagRowsDurable ==
  [][/\ Len(tags') >= Len(tags)
     /\ SubSeq(tags', 1, Len(tags)) = tags
     /\ (last'.op = "removePhotoTag" /\ photoTags' # photoTags) =>
          /\ \E row \in Range(photoTags) :
               photoTags' = SelectSeq(photoTags, LAMBDA x : x # row)
          /\ tags' = tags
          /\ photos' = photos
          /\ photoAlbums' = photoAlbums
          /\ albums' = albums
     /\ \A i \in 1..Len(tags') :
          LET listed == GetTags(tags', photoTags', noteTags')
              key == toLowerCase(tags'[i].name)
          IN /\ key \in DOMAIN listed
             /\ listed[key].name = tags'[i].name
             /\ listed[key].photoCount
                  = Cardinality({row \in Range(photoTags') : row.tag_id = tags'[i].id})]_vars

\* A tag has just been removed from the photo that carried it; its row is
\* left with no join row.
C32_Witness ==
  /\ last.op = "removePhotoTag"
  /\ last.status = 204
  /\ photos # <<>>
  /\ tags # <<>>
  /\ photoTags = <<>>

\* C33: removeTag normalizes its argument.  For a note carrying tag t and
\* every X that trims and lowercases to t, removeTag(id, X) answers 200,
\* takes t out of the note's list, the other tags staying in their order,
\* and takes the note's id out of t's bucket.
C33_RemoveNormalizes ==
  \A id \in StoredIds(notes) :
    LET i == findNoteIndex(notes, id) IN
    \A t \in TagSet(notes[i]) : \A X \in Spellings(t) :
      LET r == DeleteNoteTag(notes, noteTags, id, X, clock) IN
      /\ r.status = 200
      /\ r.notes[i].tags = SelectSeq(notes[i].tags, LAMBDA u : u # t)
      /\ id \notin Bucket(r.noteTags, t)

\* C34: a successful addTags appends the new tags.  The note's tags stay
\* in front in their order, the tags it did not have follow, each once, in
\* the order of their first occurrence in the request, and the note's id is
\* in the bucket of each of them.
C34_AddAppendsInOrder ==
  \A id \in StoredIds(notes) : \A ta \in MixedArrays :
    LET i == findNoteIndex(notes, id)
        old == notes[i].tags
        r == PostNoteTags(notes, noteTags, id, [tags |-> Arr(ta)], clock)
        out == r.notes[i].tags
        added == SubSeq(out, Len(old) + 1, Len(out))
    IN r.status = 200 =>
         /\ Len(out) >= Len(old)
         /\ SubSeq(out, 1, Len(old)) = old
         /\ Range(added) = Normalized(ta) \ Range(old)
         /\ NoRepeats(added)
         /\ \A j, k \in 1..Len(added) :
              j < k => FirstAt(ta, added[j]) < FirstAt(ta, added[k])
         /\ \A t \in Range(added) : id \in Bucket(r.noteTags, t)
         /\ \A j \in 1..Len(notes) : j # i => r.notes[j] = notes[j]

\* A tag has just been added to a note that had one.
C34_Witness ==
  /\ last.op = "addNoteTags"
  /\ last.status = 200
  /\ \E i \in 1..Len(notes) :
       /\ notes[i].tags = <<TagA, TagB>>
       /\ notes[i].id \in Bucket(noteTags, TagB)

C36_PhotoIdsFresh ==
  [][/\ nextPhotoId' >= nextPhotoId
     /\ \A i \in 1..Len(photos') : photos'[i].id < nextPhotoId'
     /\ \A i, j \in 1..Len(photos') : i < j => photos'[i].id < photos'[j].id
     /\ PhotoIdsOf(photos') \ PhotoIdsOf(photos) = nextPhotoId..(nextPhotoId' - 1)
     /\ \A i \in 1..Len(photos) : \A j \in 1..Len(photos') :
          photos'[j].id = photos[i].id => photos'[j].file_path = photos[i].file_path]_vars

\* Every id up to the bound has been handed out and the one photo stored
\* was added by the last scan, under the last of them.
C36_Witness ==
  /\ last.op = "scan"
  /\ last.status = 200
  /\ last.added = 1
  /\ nextPhotoId = MaxPhotoId + 1
  /\ Len(photos) = 1
  /\ photos[1].id = MaxPhotoId

\* C38: file_path is unique among the stored photos, also while scan
\* requests overlap.
C38_UniquePaths ==
  \A i, j \in 1..Len(photos) : i # j => photos[i].file_path # photos[j].file_path

\* A scan has completed and added a photo to a store that held one, while
\* another scan is still suspended on its listing.
C38_Witness ==
  /\ scans >= 1
  /\ last.op = "scan"
  /\ last.status = 200
  /\ last.added >= 1
  /\ Len(photos) >= 2

\* C39: GET /tags names note tags in lowercase.  Every tag carried by a
\* note has an entry named by the tag itself, whatever photo tag rows
\* there are.
C39_NoteTagsListedAsStored ==
  \A t \in TagsInUse(notes) :
    EntriesNamed(GetTags(tags, photoTags, noteTags), t) # {}

\* A tag list the tag input can hold: at most 10 distinct tags of at most
\* 32 characters.
ValidPending(pending) ==
  /\ Len(pending) <= MaxTags
  /\ NoRepeats(pending)
  /\ \A i \in 1..Len(pending) : Len(pending[i]) <= MaxTagLen

\* The tags the store holds for the note of this id.
StoredTags(ns, id) == Range(ns[findNoteIndex(ns, id)].tags)

\* C37: saving an edit reconciles the tags completely.  With a valid pending
\* list in the editor of an existing note that only the editor touches, no
\* request of the save is answered with an error, and when the save ends the
\* stored note's tag set is the pending list.
C37_SaveReconciles ==
  [][(editor'.id # 0 /\ ValidPending(editor'.pending))
       => /\ editor'.error \in {"", EmptyContentError}
          /\ (editor.pc # "saved" /\ editor'.pc = "saved")
               => StoredTags(notes', editor'.id) = Range(editor'.pending)]_vars

====
